---- MODULE Spec2Model ----
(***************************************************************************)
(* Model of the Open Desktop Ratings Service plugin of gnome-software      *)
(* (plugins/odrs/gs-plugin-odrs.c): the plugin's private data, the cache   *)
(* files it keeps, the apps it refines and the jobs (refine, refresh,      *)
(* submit, vote) that worker threads run against it; of the fwupd plugin   *)
(* (plugins/fwupd/gs-plugin-fwupd.c) with its cache of firmware apps; and  *)
(* of the installed page (src/gs-installed-page.c).                        *)
(***************************************************************************)
EXTENDS Integers, Sequences, FiniteSets, TLC

VARIABLES
    settings_review_server, \* GSettings key "review-server"
    review_server,          \* priv->review_server
    enabled,                \* gs_plugin_set_enabled()
    origin_hostname,        \* origin hostname of priv->cached_origin
    ratings,                \* priv->ratings: [loaded, rows]
    ratings_file,           \* cache file odrs/ratings.json
    review_files,           \* cache files odrs/<app-id>.json
    apps,                   \* the mutable attributes of every GsApp
    events,                 \* events passed to gs_plugin_report_event()
    interactive,            \* GS_PLUGIN_FLAGS_INTERACTIVE of the plugin
    network_available,      \* gs_plugin_get_network_available()
    job,                    \* per worker thread: the call it is running
    cancelled,              \* per worker thread: state of the job's GCancellable
    did,                    \* backend operations performed by the last step
    plugin_cache,           \* fwupd: gs_plugin_cache_add/_lookup, data-id -> app
    fw_apps,                \* fwupd: every GsApp made by gs_app_new, in order
    fw_client,              \* fwupd: priv->app_current and the FwupdClient
    page,                   \* the GsInstalledPage and its widgets
    pending,                \* gs_plugin_loader_get_pending(): apps queued
    entity_list,            \* the Entity List a job merges backend outputs into
    merged                  \* the backend outputs merged so far, in order

\* the variables of the ODRS plugin, of the fwupd plugin and of the page
odrs_vars == <<settings_review_server, review_server, enabled, origin_hostname,
               ratings, ratings_file, review_files, apps, events, interactive,
               network_available>>
fwupd_vars == <<plugin_cache, fw_apps, fw_client>>
page_vars == <<page, pending>>
list_vars == <<entity_list, merged>>

vars == <<settings_review_server, review_server, enabled, origin_hostname,
          ratings, ratings_file, review_files, apps, events, interactive,
          network_available, job, cancelled, did, fwupd_vars, page_vars,
          list_vars>>

----------------------------------------------------------------------------
(* Bounds and input sets *)

MaxEvents == 1
\* most GsApp objects the fwupd plugin makes
MaxFwApps == 3
\* status changes of the fwupd daemon on their way to the client
MaxSignals == 3
\* backend outputs merged into the Entity List of one job
MaxMerged == 2

Threads == {"t1", "t2"}

NoStr == "<null>"
NoError == "none"

\* the values the review-server setting takes
Servers == {"", "https://odrs"}

\* the app ids known to the model, in g_strcmp0 order
AppIdOrder == <<"a", "b">>

ODRS_REVIEW_CACHE_AGE_MAX == 237000

\* the oldest file age (seconds) the model tells apart, and the steps in
\* which time passes
MaxFileAge == ODRS_REVIEW_CACHE_AGE_MAX
TickDeltas == {ODRS_REVIEW_CACHE_AGE_MAX}

\* cache_age arguments of gs_plugin_refresh
CacheAges == {0, ODRS_REVIEW_CACHE_AGE_MAX}

\* priv->user_hash
UserHash == "u1"

\* the GsApp objects: kind, id and provided ids never change in the plugin
AppPool == {1, 2, 3, 4, 5}
AppKind(a) == IF a = 3 THEN "addon" ELSE "desktop"
AppId(a) == CASE a = 1 -> "a" [] a = 2 -> "b" [] a = 3 -> "a" [] a = 5 -> "a"
              [] OTHER -> NoStr
AppProvided(a) == IF a = 2 THEN <<"a">> ELSE IF a = 5 THEN <<"a">> ELSE <<>>

\* the lists gs_plugin_refine is called with
Lists == {<<1>>, <<1, 2>>, <<3, 4, 2>>}

\* the flag sets gs_plugin_refine is called with
FlagSets == {{}, {"REQUIRE_REVIEWS"}, {"REQUIRE_RATING"},
             {"REQUIRE_REVIEW_RATINGS"},
             {"REQUIRE_REVIEWS", "REQUIRE_RATING"}}

----------------------------------------------------------------------------
(* The data the server and the cache files hold *)

\* one element of a JSON array of reviews (gs_plugin_odrs_parse_review_object
\* reads user_hash, rating and user_skey from it)
RvSelf == [obj |-> TRUE, user_hash |-> UserHash, rating |-> 80, user_skey |-> "k1"]
RvZero == [obj |-> TRUE, user_hash |-> "u2", rating |-> 0, user_skey |-> "k1"]
RvAnon == [obj |-> TRUE, user_hash |-> NoStr, rating |-> 60, user_skey |-> NoStr]
RvNonObject == [obj |-> FALSE, user_hash |-> NoStr, rating |-> 0, user_skey |-> NoStr]

\* a JSON document: no data at all, unparseable text, an array or an object
BodyNone == [kind |-> "none", items |-> <<>>, success |-> FALSE]
BodyGarbage == [kind |-> "garbage", items |-> <<>>, success |-> FALSE]
BodyArray(items) == [kind |-> "array", items |-> items, success |-> FALSE]
BodyObject(success) == [kind |-> "object", items |-> <<>>, success |-> success]

\* what the review server may answer to /fetch
FetchBodies == {BodyNone, BodyGarbage, BodyObject(TRUE), BodyObject(FALSE),
                BodyArray(<<RvZero>>), BodyArray(<<RvSelf, RvAnon, RvSelf>>),
                BodyArray(<<RvSelf, RvNonObject>>)}
SoupStatus == {"OK", "ERROR"}

\* one member of the ratings JSON object: app id and the star0..star5 counts
\* (stars = <<>> when a star member is missing, holds_object = FALSE when the
\* member is not an object)
RatingMember(id, stars) == [app_id |-> id, holds_object |-> TRUE, stars |-> stars]
RatingsDocA == [kind |-> "object",
                members |-> <<RatingMember("b", <<0, 0, 0, 0, 0, 0>>),
                              RatingMember("a", <<1, 0, 1, 0, 2, 5>>)>>]
RatingsDocB == [kind |-> "object",
                members |-> <<RatingMember("b", <<>>),
                              [app_id |-> "a", holds_object |-> FALSE, stars |-> <<>>]>>]
RatingsDocGarbage == [kind |-> "garbage", members |-> <<>>]
RatingsDocArray == [kind |-> "array", members |-> <<>>]
RatingsDocs == {RatingsDocA, RatingsDocB, RatingsDocGarbage, RatingsDocArray}

\* a cache file
NoReviewFile == [exists |-> FALSE, age |-> 0, data |-> BodyNone]
NoRatingsFile == [exists |-> FALSE, age |-> 0, data |-> RatingsDocGarbage]

AppIds == {AppIdOrder[k] : k \in 1..Len(AppIdOrder)}

----------------------------------------------------------------------------
(* Pure functions of the plugin *)

\* g_strcmp0 on app ids, through the position of the id in AppIdOrder
IdRank(id) ==
    IF id \in AppIds THEN CHOOSE k \in 1..Len(AppIdOrder) : AppIdOrder[k] = id ELSE 0

rating_compare(a, b) == IdRank(a.app_id) - IdRank(b.app_id)

\* g_array_binary_search: left, middle and right are 0-based as in the code
RECURSIVE BinarySearchLoop(_, _, _, _)
BinarySearchLoop(rows, target, left, right) ==
    IF left > right THEN [found |-> FALSE, index |-> 0]
    ELSE LET middle == left + ((right - left) \div 2)
             val == rating_compare(rows[middle + 1], target)
         IN  IF val = 0 THEN [found |-> TRUE, index |-> middle]
             ELSE IF val < 0 THEN BinarySearchLoop(rows, target, middle + 1, right)
             ELSE IF middle > 0 THEN BinarySearchLoop(rows, target, left, middle - 1)
             ELSE [found |-> FALSE, index |-> 0]

g_array_binary_search(rows, target) ==
    IF Len(rows) > 0 THEN BinarySearchLoop(rows, target, 0, Len(rows) - 1)
    ELSE [found |-> FALSE, index |-> 0]

\* g_array_sort with rating_compare
RECURSIVE InsertSorted(_, _)
InsertSorted(row, sorted) ==
    IF sorted = <<>> THEN <<row>>
    ELSE IF rating_compare(row, Head(sorted)) <= 0 THEN <<row>> \o sorted
    ELSE <<Head(sorted)>> \o InsertSorted(row, Tail(sorted))

RECURSIVE g_array_sort(_)
g_array_sort(rows) ==
    IF rows = <<>> THEN <<>> ELSE InsertSorted(Head(rows), g_array_sort(Tail(rows)))

\* gs_plugin_odrs_load_ratings_for_app: FALSE when a star member is missing
load_ratings_for_app(member) == Len(member.stars) = 6

\* the rows gs_plugin_odrs_load_ratings appends, in the order of the file
RECURSIVE ParseRatingMembers(_)
ParseRatingMembers(members) ==
    IF members = <<>> THEN <<>>
    ELSE LET m == Head(members)
             rest == ParseRatingMembers(Tail(members))
         IN  IF ~m.holds_object THEN rest
             ELSE IF load_ratings_for_app(m)
                  THEN <<[app_id |-> m.app_id, n_star_ratings |-> m.stars]>> \o rest
                  ELSE rest

\* gs_plugin_odrs_load_ratings: the result of reading and parsing file fn
\* variant: the rows stay in the order of the file
load_ratings_unsorted(fn) ==
    IF ~fn.exists THEN [ok |-> FALSE, err |-> "G_FILE_ERROR", rows |-> <<>>]
    ELSE IF fn.data.kind # "object"
         THEN [ok |-> FALSE, err |-> "INVALID_FORMAT", rows |-> <<>>]
    ELSE [ok |-> TRUE, err |-> NoError, rows |-> ParseRatingMembers(fn.data.members)]
load_ratings(fn) ==
    IF ~fn.exists THEN [ok |-> FALSE, err |-> "G_FILE_ERROR", rows |-> <<>>]
    ELSE IF fn.data.kind = "garbage"
         THEN [ok |-> FALSE, err |-> "INVALID_FORMAT", rows |-> <<>>]
    ELSE IF fn.data.kind # "object"
         THEN [ok |-> FALSE, err |-> "INVALID_FORMAT", rows |-> <<>>]
    ELSE [ok |-> TRUE, err |-> NoError,
          rows |-> g_array_sort(ParseRatingMembers(fn.data.members))]

\* variant: no file is ever young enough
file_age_less_never(f, limit) == FALSE

\* gs_utils_get_file_age(f) < limit: the age of a file that does not exist is
\* G_MAXUINT, which is below no limit
file_age_less(f, limit) == f.exists /\ f.age < limit

\* the data == NULL branch shared by parse_reviews and parse_success
no_data_error(net) == IF ~net THEN "NO_NETWORK" ELSE "INVALID_FORMAT"

\* the loop of gs_plugin_odrs_parse_reviews over the JSON array
RECURSIVE ParseReviewItems(_, _, _)
ParseReviewItems(items, reviewer_ids, reviews) ==
    IF items = <<>> THEN [ok |-> TRUE, err |-> NoError, reviews |-> reviews]
    ELSE LET item == Head(items) IN
         IF ~item.obj THEN [ok |-> FALSE, err |-> "INVALID_FORMAT", reviews |-> <<>>]
         ELSE IF item.user_hash = NoStr
              THEN ParseReviewItems(Tail(items), reviewer_ids, reviews)
         ELSE IF item.user_hash \in reviewer_ids
              THEN ParseReviewItems(Tail(items), reviewer_ids, reviews)
         ELSE ParseReviewItems(Tail(items), reviewer_ids \cup {item.user_hash},
                               Append(reviews, item))

gs_plugin_odrs_parse_reviews(data, net) ==
    IF data.kind = "none" THEN [ok |-> FALSE, err |-> no_data_error(net), reviews |-> <<>>]
    ELSE IF data.kind = "garbage"
         THEN [ok |-> FALSE, err |-> "INVALID_FORMAT", reviews |-> <<>>]
    ELSE IF data.kind # "array"
         THEN [ok |-> FALSE, err |-> "INVALID_FORMAT", reviews |-> <<>>]
    ELSE ParseReviewItems(data.items, {}, <<>>)

gs_plugin_odrs_parse_success(data, net) ==
    IF data.kind = "none" THEN [ok |-> FALSE, err |-> no_data_error(net)]
    ELSE IF data.kind = "garbage" THEN [ok |-> FALSE, err |-> "INVALID_FORMAT"]
    ELSE IF data.kind # "object" THEN [ok |-> FALSE, err |-> "INVALID_FORMAT"]
    ELSE IF ~data.success THEN [ok |-> FALSE, err |-> "INVALID_FORMAT"]
    ELSE [ok |-> TRUE, err |-> NoError]

\* _gs_app_get_reviewable_ids: the app's id followed by its provided ids
gs_app_get_reviewable_ids(a) == <<AppId(a)>> \o AppProvided(a)

\* gs_utils_get_wilson_rating: -1 without any rating, otherwise a score in
\* 1..100 that grows with the share of high ratings
gs_utils_get_wilson_rating(star1, star2, star3, star4, star5) ==
    LET star_sum == star1 + star2 + star3 + star4 + star5 IN
    IF star_sum = 0 THEN -1
    ELSE (20 * (star1 + 2 * star2 + 3 * star3 + 4 * star4 + 5 * star5)) \div star_sum

\* the accumulation loop of gs_plugin_odrs_refine_ratings over the reviewable
\* ids: the summed star counts and the number of ids found in the table
RECURSIVE AccumulateRatings(_, _, _, _)
AccumulateRatings(rows, ids, ratings_raw, cnt) ==
    IF ids = <<>> THEN [ratings_raw |-> ratings_raw, cnt |-> cnt]
    ELSE LET search_rating == [app_id |-> Head(ids), n_star_ratings |-> <<0, 0, 0, 0, 0, 0>>]
             res == g_array_binary_search(rows, search_rating)
         IN  IF ~res.found THEN AccumulateRatings(rows, Tail(ids), ratings_raw, cnt)
             ELSE LET found_rating == rows[res.index + 1] IN
                  AccumulateRatings(rows, Tail(ids),
                      [j \in 1..6 |-> ratings_raw[j] + found_rating.n_star_ratings[j]],
                      cnt + 1)

\* the loop of gs_plugin_odrs_refine_reviews: the app after the parsed
\* reviews have been applied to it
RECURSIVE AddReviews(_, _)
AddReviews(app, reviews) ==
    IF reviews = <<>> THEN app
    ELSE LET review == Head(reviews) IN
         IF review.rating = 0 THEN AddReviews(app, Tail(reviews))
         ELSE AddReviews(
                [app EXCEPT !.reviews = Append(@,
                    [user_hash |-> review.user_hash, rating |-> review.rating,
                     self |-> (review.user_hash = UserHash)])],
                Tail(reviews))

refine_reviews_apply(app, reviews) ==
    LET withkey == IF reviews = <<>> THEN app
                   ELSE IF reviews[1].user_skey = NoStr \/ app.user_skey = NoStr
                        THEN [app EXCEPT !.user_skey = reviews[1].user_skey]
                        ELSE app
    IN  AddReviews(withkey, reviews)

----------------------------------------------------------------------------
(* GsApp attributes with a quality, and the devices fwupd reports *)

\* GsAppQuality, lowest first
GsAppQuality == <<"UNKNOWN", "LOWEST", "NORMAL", "HIGHEST">>
QualityRank(quality) == CHOOSE k \in 1..Len(GsAppQuality) : GsAppQuality[k] = quality

\* the attributes gs_app_set_name, _set_summary and _set_description write
TextAttrs == {"name", "summary", "description"}

\* gs_app_new (id): a GsApp without any attribute (local_file: the app has
\* a GFile; size_download: -1 while not known)
gs_app_new(id) ==
    [new_id |-> id, id |-> id, kind |-> "UNKNOWN", categories |-> {},
     state |-> "UNKNOWN", version |-> NoStr, update_version |-> NoStr,
     update_details |-> NoStr, device_id |-> NoStr, is_locked |-> FALSE,
     state_recover |-> "UNKNOWN", management_plugin |-> NoStr,
     local_file |-> FALSE, remote_id |-> NoStr, size_download |-> -1,
     needs_user_action |-> FALSE,
     text |-> [attr \in TextAttrs |-> NoStr],
     quality |-> [attr \in TextAttrs |-> "UNKNOWN"]]

\* gs_app_set_state: the state to go back to is the last one that is not
\* an action in progress
gs_app_set_state(app, state) ==
    [app EXCEPT !.state = state,
                !.state_recover = IF state \in {"INSTALLING", "REMOVING"}
                                  THEN @ ELSE state]

\* gs_app_set_name, gs_app_set_summary, gs_app_set_description: the value
\* is only saved when its quality is above the quality of the value in place
gs_app_set_text(app, attr, quality, value) ==
    IF QualityRank(quality) <= QualityRank(app.quality[attr]) THEN app
    ELSE [app EXCEPT !.text[attr] = value, !.quality[attr] = quality]

\* as_utils_build_data_id (SYSTEM, UNKNOWN, NULL, id, NULL)
as_utils_build_data_id(appstream_id) == "system/*/*/" \o appstream_id \o "/*"

\* a device id is kept as the sequence of its parts between the slashes
RECURSIVE JoinWith(_, _)
JoinWith(parts, delimiter) ==
    IF Len(parts) = 0 THEN ""
    ELSE IF Len(parts) = 1 THEN parts[1]
    ELSE parts[1] \o delimiter \o JoinWith(Tail(parts), delimiter)

\* gs_plugin_fwupd_build_device_id: the slashes become underscores
gs_plugin_fwupd_build_device_id(dev) ==
    "org.fwupd." \o JoinWith(dev.id, "_") \o ".device"

\* a FwupdDevice with its default release: the device's flags, version and
\* description, the release's AppStream id (NoStr for a device without
\* release or with a release that has none), version and description, what
\* fwupd_client_get_upgrades answers for it, the kinds of the checksums of
\* the release and its location
FwDevice(id, flags, description, appstream_id, upgrades, checksums) ==
    [id |-> id, flags |-> flags, version |-> "0.1", name |-> "Chiron",
     summary |-> "Single line synopsis", description |-> description,
     appstream_id |-> appstream_id, rel_version |-> "0.2",
     rel_description |-> "Latest firmware release.",
     upgrades |-> upgrades, checksums |-> checksums,
     uri |-> "https://fw/firmware.cab"]

DevChiron == FwDevice(<<"d1">>, {"SUPPORTED", "UPDATABLE"}, "This is the first paragraph.",
                      "com.test.chiron.firmware", "ok", {"SHA1"})
DevChironBare == FwDevice(<<"d2">>, {"SUPPORTED", "UPDATABLE"}, NoStr,
                          "com.test.chiron.firmware", "ok", {"SHA1"})
DevOther == FwDevice(<<"d3">>, {"SUPPORTED"}, NoStr, "org.other.firmware", "ok", {})
DevOld == FwDevice(<<"d4">>, {"SUPPORTED", "UPDATABLE"}, NoStr, NoStr, "NOTHING_TO_DO", {"SHA1"})
DevLocked == FwDevice(<<"usb", "d5">>, {"LOCKED"}, NoStr, "org.other.firmware", "FAILED", {"SHA1"})
DevCab == FwDevice(<<"d0">>, {}, "This is the first paragraph.",
                   "com.test.chiron.firmware", "ok", {"SHA1"})

\* a FwupdRemote: its id, enabled, its kind, the age of its metadata and
\* whether it has a cache file for the signature
FwRemote(id, is_enabled, kind, age, has_cache_sig) ==
    [id |-> id, enabled |-> is_enabled, kind |-> kind, age |-> age,
     has_cache_sig |-> has_cache_sig]

\* the keys of the plugin cache
FwDataIds == {as_utils_build_data_id(dev.appstream_id) :
                 dev \in {d \in {DevCab, DevChiron, DevChironBare, DevOther, DevOld,
                               DevLocked} : d.appstream_id # NoStr}}

----------------------------------------------------------------------------
(* State *)

NewApp == [reviews |-> <<>>, review_ratings |-> <<>>, rating |-> -1, user_skey |-> NoStr]

\* the AsReview handed to submit and vote: its "app_id" metadata and its flags
NoReview == [app_id |-> NoStr, flags |-> {}]

IdleJob == [op |-> "idle", pc |-> "idle", list |-> <<>>, flags |-> {}, i |-> 0,
            outcomes |-> <<>>, ret |-> TRUE, err |-> NoError,
            cache_age |-> 0, dl |-> "none", review |-> NoReview, path |-> NoStr,
            uri |-> NoStr, reviews |-> <<>>, added |-> <<>>,
            devices |-> <<>>, app |-> 0, out |-> <<>>, content_type |-> NoStr,
            remotes |-> <<>>, api |-> NoStr, state0 |-> NoStr,
            cache0 |-> NoStr, cache |-> NoStr, err2 |-> NoError,
            prog |-> <<>>, held |-> {}]

\* review cache files left behind by an earlier session
InitialReviewFiles ==
    {NoReviewFile,
     [exists |-> TRUE, age |-> 0, data |-> BodyGarbage],
     [exists |-> TRUE, age |-> 0, data |-> BodyNone]}

\* the ratings file left behind by an earlier session
InitialRatingsFiles ==
    {NoRatingsFile, [exists |-> TRUE, age |-> 0, data |-> RatingsDocA]}

\* the installed page after gs_installed_page_init
\* (rows: the children of list_box_install; counter: the label of
\* button_installed_counter, -1 while it has none, and whether the widget
\* is shown; jobs: the GET_INSTALLED jobs in flight; stale: a reload was
\* asked for and no job has been submitted since; handler, mode: the last
\* handler that ran and the mode of the shell it saw; error, warned: how
\* the last job ended and the g_warning calls of the last handler)
InstalledPageInit ==
    [cache_valid |-> FALSE, waiting |-> FALSE, stack |-> "spinner",
     spinner |-> FALSE, rows |-> <<>>,
     counter |-> [label |-> -1, visible |-> FALSE], jobs |-> 0,
     stale |-> FALSE, handler |-> "setup", mode |-> "OVERVIEW",
     error |-> NoError, warned |-> 0]

Init ==
    /\ settings_review_server = "https://odrs"
    /\ review_server = "https://odrs"
    /\ enabled = TRUE
    /\ origin_hostname = "https://odrs"
    /\ ratings = [loaded |-> FALSE, rows |-> <<>>]
    /\ ratings_file \in InitialRatingsFiles
    /\ \E f \in InitialReviewFiles :
          review_files = [id \in AppIds |-> IF id = "a" THEN f ELSE NoReviewFile]
    /\ apps = [a \in AppPool |-> NewApp]
    /\ events = <<>>
    /\ interactive = FALSE
    /\ network_available = TRUE
    /\ job = [t \in Threads |-> IdleJob]
    /\ cancelled = [t \in Threads |-> FALSE]
    /\ did = {}
    /\ plugin_cache = [id \in FwDataIds |-> 0]
    /\ fw_apps = <<>>
    /\ fw_client = [app_current |-> 0, status |-> "IDLE", signals |-> <<>>]
    /\ page = InstalledPageInit
    /\ pending = <<>>
    /\ entity_list = <<>>
    /\ merged = <<>>

RatingFlags == {"REQUIRE_REVIEW_RATINGS", "REQUIRE_RATING"}
RefineFlags == {"REQUIRE_REVIEWS"} \cup RatingFlags

\* variant: only a missing review server counts as unset, an empty one does not
review_server_unset_null_only == review_server = NoStr

\* priv->review_server == NULL || priv->review_server[0] == '\0'
review_server_unset == review_server = NoStr \/ review_server = ""

\* the app gs_plugin_refine is working on
CurApp(j) == j.list[j.i]

\* the "not valid" checks of refine_app
refine_app_valid(a) == AppKind(a) # "addon" /\ AppId(a) # NoStr

\* variant: the reviews block never takes the early return
refine_app_has_reviews_never(app) == FALSE

\* refine_app: reviews are not fetched for an app that already has some
refine_app_has_reviews(app) == Len(app.reviews) > 0

\* variant: the ratings block never takes the early return
refine_app_has_review_ratings_never(app) == FALSE

\* refine_app: ratings are not looked up for an app that already has them
refine_app_has_review_ratings(app) == app.review_ratings # <<>>

\* variants: no error, or every error, of refine_app is only logged
refine_error_ignored_none(err) == FALSE
refine_error_ignored_all(err) == TRUE

\* gs_plugin_refine: the errors of refine_app that are only logged
refine_error_ignored(err) == err = "NO_NETWORK"

\* gs_plugin_refine: what the loop does with the result of refine_app for
\* the current app; err is NoError when refine_app returned TRUE and via
\* names the return statement refine_app left through
FinishApp(j, err, via) ==
    LET logged == [j EXCEPT !.outcomes = Append(@, [err |-> err, via |-> via])] IN
    IF err = NoError \/ refine_error_ignored(err)
    THEN IF j.i < Len(j.list)
         THEN [logged EXCEPT !.pc = "refine_loop", !.i = j.i + 1]
         ELSE [logged EXCEPT !.pc = "done", !.ret = TRUE, !.err = NoError]
    ELSE [logged EXCEPT !.pc = "done", !.ret = FALSE, !.err = err]

\* refine_app after the reviews block: on to the ratings block when a
\* ratings flag is requested
AfterReviews(j) ==
    IF j.flags \cap RatingFlags # {} THEN [j EXCEPT !.pc = "ratings"]
    ELSE FinishApp(j, NoError, "end")

----------------------------------------------------------------------------
(* Settings and environment *)

\* the "review-server" key changes and gs_plugin_odrs_review_server_changed_cb runs
SettingsChanged(v) ==
    /\ v # settings_review_server
    /\ settings_review_server' = v
    /\ IF v # review_server
       THEN /\ review_server' = v
            /\ enabled' = (v # NoStr /\ v # "")
            /\ origin_hostname' = v
       ELSE UNCHANGED <<review_server, enabled, origin_hostname>>
    /\ did' = {}
    /\ UNCHANGED <<ratings, ratings_file, review_files, apps, events, interactive,
                   network_available, job, cancelled>>
    /\ UNCHANGED <<fwupd_vars, page_vars, list_vars>>

\* the plugin loader sets or clears GS_PLUGIN_FLAGS_INTERACTIVE
InteractiveChanged ==
    /\ interactive' = ~interactive
    /\ did' = {}
    /\ UNCHANGED <<settings_review_server, review_server, enabled, origin_hostname,
                   ratings, ratings_file, review_files, apps, events,
                   network_available, job, cancelled>>
    /\ UNCHANGED <<fwupd_vars, page_vars, list_vars>>

\* the network comes or goes
NetworkChanged ==
    /\ network_available' = ~network_available
    /\ did' = {}
    /\ UNCHANGED <<settings_review_server, review_server, enabled, origin_hostname,
                   ratings, ratings_file, review_files, apps, events,
                   interactive, job, cancelled>>
    /\ UNCHANGED <<fwupd_vars, page_vars, list_vars>>

\* d seconds pass: every cache file gets older (ages beyond MaxFileAge are
\* not told apart)
Older(f, d) ==
    IF f.exists
    THEN [f EXCEPT !.age = IF @ + d > MaxFileAge THEN MaxFileAge ELSE @ + d]
    ELSE f

Tick(d) ==
    /\ ratings_file' = Older(ratings_file, d)
    /\ review_files' = [id \in AppIds |-> Older(review_files[id], d)]
    /\ <<ratings_file', review_files'>> # <<ratings_file, review_files>>
    /\ did' = {}
    /\ UNCHANGED <<settings_review_server, review_server, enabled, origin_hostname,
                   ratings, apps, events, interactive, network_available, job,
                   cancelled>>
    /\ UNCHANGED <<fwupd_vars, page_vars, list_vars>>

\* the caller cancels the GCancellable of a running job
Cancel(t) ==
    /\ job[t].op # "idle"
    /\ job[t].pc # "done"
    /\ ~cancelled[t]
    /\ cancelled' = [cancelled EXCEPT ![t] = TRUE]
    /\ did' = {}
    /\ UNCHANGED <<settings_review_server, review_server, enabled, origin_hostname,
                   ratings, ratings_file, review_files, apps, events, interactive,
                   network_available, job>>
    /\ UNCHANGED <<fwupd_vars, page_vars, list_vars>>

\* the call returns to the plugin loader and the thread is free again
Return(t) ==
    /\ job[t].pc = "done"
    /\ job' = [job EXCEPT ![t] = IdleJob]
    /\ cancelled' = [cancelled EXCEPT ![t] = FALSE]
    /\ did' = {}
    /\ UNCHANGED <<settings_review_server, review_server, enabled, origin_hostname,
                   ratings, ratings_file, review_files, apps, events, interactive,
                   network_available>>
    /\ UNCHANGED <<fwupd_vars, page_vars, list_vars>>

----------------------------------------------------------------------------
(* gs_plugin_refine *)

\* gs_plugin_refine is called: the "nothing to do here" check
RefineStart(t, list, flags) ==
    /\ job[t].pc = "idle"
    /\ job' = [job EXCEPT ![t] =
                 IF flags \cap RefineFlags = {}
                 THEN [IdleJob EXCEPT !.op = "refine", !.pc = "done", !.list = list,
                                      !.flags = flags, !.ret = TRUE]
                 ELSE [IdleJob EXCEPT !.op = "refine", !.pc = "refine_loop",
                                      !.list = list, !.flags = flags, !.i = 1]]
    /\ did' = {}
    /\ UNCHANGED <<settings_review_server, review_server, enabled, origin_hostname,
                   ratings, ratings_file, review_files, apps, events, interactive,
                   network_available, cancelled>>
    /\ UNCHANGED <<fwupd_vars, page_vars, list_vars>>

\* refine_app up to the end of its reviews block, with
\* gs_plugin_odrs_refine_reviews and gs_plugin_odrs_fetch_for_app up to the
\* point where the request is handed to the network
RefineApp(t) ==
    /\ job[t].op = "refine"
    /\ job[t].pc = "refine_loop"
    /\ LET j == job[t]
           a == CurApp(j)
           id == AppId(a)
       IN
       IF ~refine_app_valid(a)
       THEN /\ job' = [job EXCEPT ![t] = FinishApp(j, NoError, "not_valid")]
            /\ did' = {}
            /\ UNCHANGED apps
       ELSE IF "REQUIRE_REVIEWS" \notin j.flags
       THEN /\ job' = [job EXCEPT ![t] = AfterReviews(j)]
            /\ did' = {}
            /\ UNCHANGED apps
       ELSE IF refine_app_has_reviews(apps[a])
       THEN /\ job' = [job EXCEPT ![t] = FinishApp(j, NoError, "has_reviews")]
            /\ did' = {}
            /\ UNCHANGED apps
       ELSE IF review_server_unset
       THEN /\ job' = [job EXCEPT ![t] = AfterReviews(j)]
            /\ did' = {}
            /\ UNCHANGED apps
       ELSE IF file_age_less(review_files[id], ODRS_REVIEW_CACHE_AGE_MAX)
       THEN LET parsed == gs_plugin_odrs_parse_reviews(review_files[id].data,
                                                        network_available)
            IN  /\ did' = {"cache_read"}
                /\ IF parsed.ok
                   THEN /\ apps' = [apps EXCEPT ![a] = refine_reviews_apply(@, parsed.reviews)]
                        /\ job' = [job EXCEPT ![t] = AfterReviews(j)]
                   ELSE /\ job' = [job EXCEPT ![t] = FinishApp(j, parsed.err, "reviews_failed")]
                        /\ UNCHANGED apps
       ELSE /\ job' = [job EXCEPT ![t].pc = "fetch_net", ![t].uri = review_server]
            /\ did' = {"net_send"}
            /\ UNCHANGED apps
    /\ UNCHANGED <<settings_review_server, review_server, enabled, origin_hostname,
                   ratings, ratings_file, review_files, events, interactive,
                   network_available, cancelled>>
    /\ UNCHANGED <<fwupd_vars, page_vars, list_vars>>

\* variant: the response is saved before it is parsed
fetch_for_app_saves_unparsed(status_ok, parsed_ok, write_ok) == status_ok /\ write_ok

\* gs_plugin_odrs_fetch_for_app: g_file_set_contents is reached, and works,
\* only behind the status check and the parse of the response
fetch_for_app_saves(status_ok, parsed_ok, write_ok) ==
    status_ok /\ parsed_ok /\ write_ok

\* soup_session_send_message returns in gs_plugin_odrs_fetch_for_app: the
\* rest of the fetch and the loop of gs_plugin_odrs_refine_reviews
FetchReply(t, status_code, body, write_ok) ==
    /\ job[t].op = "refine"
    /\ job[t].pc = "fetch_net"
    /\ status_code = "OK" => body.kind # "none"
    /\ LET j == [job[t] EXCEPT !.uri = NoStr]
           a == CurApp(j)
           id == AppId(a)
           success == gs_plugin_odrs_parse_success(body, network_available)
           parsed == gs_plugin_odrs_parse_reviews(body, network_available)
       IN
       /\ review_files' =
             IF fetch_for_app_saves(status_code = "OK", parsed.ok, write_ok)
             THEN [review_files EXCEPT ![id] =
                     [exists |-> TRUE, age |-> 0, data |-> body]]
             ELSE review_files
       /\ IF status_code # "OK"
          THEN /\ job' = [job EXCEPT ![t] =
                            FinishApp(j, IF ~success.ok THEN success.err
                                         ELSE "DOWNLOAD_FAILED", "reviews_failed")]
               /\ UNCHANGED apps
          ELSE IF ~parsed.ok
          THEN /\ job' = [job EXCEPT ![t] = FinishApp(j, parsed.err, "reviews_failed")]
               /\ UNCHANGED apps
          ELSE IF ~write_ok
          THEN /\ job' = [job EXCEPT ![t] = FinishApp(j, "G_FILE_ERROR", "reviews_failed")]
               /\ UNCHANGED apps
          ELSE /\ apps' = [apps EXCEPT ![a] = refine_reviews_apply(@, parsed.reviews)]
               /\ job' = [job EXCEPT ![t] = AfterReviews(j)]
    /\ did' = {}
    /\ UNCHANGED <<settings_review_server, review_server, enabled, origin_hostname,
                   ratings, ratings_file, events, interactive, network_available,
                   cancelled>>
    /\ UNCHANGED <<fwupd_vars, page_vars, list_vars>>

\* the ratings block of refine_app, with gs_plugin_odrs_refine_ratings
RefineAppRatings(t) ==
    /\ job[t].op = "refine"
    /\ job[t].pc = "ratings"
    /\ LET j == job[t]
           a == CurApp(j)
       IN
       /\ job' = [job EXCEPT ![t] =
                    FinishApp(j, NoError, IF refine_app_has_review_ratings(apps[a])
                                          THEN "has_review_ratings" ELSE "end")]
       /\ IF refine_app_has_review_ratings(apps[a])
          THEN /\ did' = {}
               /\ UNCHANGED <<apps, ratings>>
          ELSE IF review_server_unset
          THEN /\ did' = {}
               /\ UNCHANGED <<apps, ratings>>
          ELSE LET loaded == load_ratings(ratings_file)
                   table == IF ratings.loaded THEN ratings
                            ELSE IF loaded.ok THEN [loaded |-> TRUE, rows |-> loaded.rows]
                            ELSE ratings
                   acc == AccumulateRatings(table.rows, gs_app_get_reviewable_ids(a),
                                            <<0, 0, 0, 0, 0, 0>>, 0)
                   review_ratings == acc.ratings_raw
                   rating == gs_utils_get_wilson_rating(review_ratings[2], review_ratings[3],
                                 review_ratings[4], review_ratings[5], review_ratings[6])
               IN  /\ ratings' = table
                   /\ did' = (IF ratings.loaded THEN {} ELSE {"ratings_load"})
                             \cup (IF table.loaded THEN {"ratings_lookup"} ELSE {})
                   /\ IF table.loaded /\ acc.cnt # 0
                      THEN apps' = [apps EXCEPT ![a].review_ratings = review_ratings,
                                                ![a].rating = IF rating > 0 THEN rating ELSE @]
                      ELSE UNCHANGED apps
    /\ UNCHANGED <<settings_review_server, review_server, enabled, origin_hostname,
                   ratings_file, review_files, events, interactive,
                   network_available, cancelled>>
    /\ UNCHANGED <<fwupd_vars, page_vars, list_vars>>

----------------------------------------------------------------------------
(* gs_plugin_refresh *)

\* priv->cached_origin, the repository app named after the plugin
cached_origin == "odrs"

\* variant: the event is flagged as a warning whatever the plugin flags are
download_failed_event_warning(error_local, origin, is_interactive) ==
    [error |-> error_local,
     action |-> "DOWNLOAD",
     origin |-> origin,
     flags |-> {"WARNING"} \cup (IF is_interactive THEN {"INTERACTIVE"} ELSE {})]

\* the event gs_plugin_refresh reports when the download failed
download_failed_event(error_local, origin, is_interactive) ==
    [error |-> error_local,
     action |-> "DOWNLOAD",
     origin |-> origin,
     flags |-> IF is_interactive THEN {"INTERACTIVE"} ELSE {"WARNING"}]

\* variant: the failed download fails the refresh
refresh_download_failed_return_false == FALSE

\* what gs_plugin_refresh returns after it reported the failed download
refresh_download_failed_return == TRUE

\* gs_plugin_refresh is called: the review-server check and the cache-age check
RefreshStart(t, cache_age) ==
    /\ job[t].pc = "idle"
    /\ LET j == [IdleJob EXCEPT !.op = "refresh", !.cache_age = cache_age] IN
       IF review_server_unset
       THEN /\ job' = [job EXCEPT ![t] = [j EXCEPT !.pc = "done", !.ret = TRUE]]
            /\ did' = {}
            /\ UNCHANGED ratings
       ELSE IF cache_age > 0 /\ file_age_less(ratings_file, cache_age)
       THEN LET loaded == load_ratings(ratings_file) IN
            /\ job' = [job EXCEPT ![t] = [j EXCEPT !.pc = "done", !.ret = loaded.ok,
                                                   !.err = loaded.err]]
            /\ ratings' = IF loaded.ok THEN [loaded |-> TRUE, rows |-> loaded.rows]
                          ELSE ratings
            /\ did' = {"ratings_load"}
       ELSE /\ job' = [job EXCEPT ![t] = [j EXCEPT !.pc = "download",
                                                   !.uri = review_server]]
            /\ did' = {"download"}
            /\ UNCHANGED ratings
    /\ UNCHANGED <<settings_review_server, review_server, enabled, origin_hostname,
                   ratings_file, review_files, apps, events, interactive,
                   network_available, cancelled>>
    /\ UNCHANGED <<fwupd_vars, page_vars, list_vars>>

\* gs_plugin_download_file fails in gs_plugin_refresh
RefreshDownloadFailed(t, error_local) ==
    /\ job[t].op = "refresh"
    /\ job[t].pc = "download"
    /\ Len(events) < MaxEvents
    /\ events' = Append(events, download_failed_event(error_local, cached_origin, interactive))
    /\ job' = [job EXCEPT ![t].pc = "done", ![t].dl = "failed", ![t].uri = NoStr,
                          ![t].ret = refresh_download_failed_return]
    /\ did' = {}
    /\ UNCHANGED <<settings_review_server, review_server, enabled, origin_hostname,
                   ratings, ratings_file, review_files, apps, interactive,
                   network_available, cancelled>>
    /\ UNCHANGED <<fwupd_vars, page_vars, list_vars>>

\* gs_plugin_download_file has written the ratings file and
\* gs_plugin_odrs_load_ratings reads it
RefreshDownloaded(t, doc) ==
    /\ job[t].op = "refresh"
    /\ job[t].pc = "download"
    /\ LET written == [exists |-> TRUE, age |-> 0, data |-> doc]
           loaded == load_ratings(written)
       IN  /\ ratings_file' = written
           /\ ratings' = IF loaded.ok THEN [loaded |-> TRUE, rows |-> loaded.rows]
                         ELSE ratings
           /\ job' = [job EXCEPT ![t].pc = "done", ![t].dl = "ok", ![t].uri = NoStr,
                                 ![t].ret = loaded.ok, ![t].err = loaded.err]
    /\ did' = {"ratings_load"}
    /\ UNCHANGED <<settings_review_server, review_server, enabled, origin_hostname,
                   review_files, apps, events, interactive, network_available,
                   cancelled>>
    /\ UNCHANGED <<fwupd_vars, page_vars, list_vars>>

----------------------------------------------------------------------------
(* gs_plugin_review_submit and the votes *)

\* the paths of gs_plugin_review_report, _upvote, _downvote, _dismiss, _remove
VotePaths == {"report", "upvote", "downvote", "dismiss", "remove"}

\* the cache file "<app_id>.json" of a review; no file is ever written for
\* a review without app_id
ReviewFile(app_id) == IF app_id = NoStr THEN NoReviewFile ELSE review_files[app_id]

\* variant: the cache file is left alone and the call reports success
gs_plugin_odrs_invalidate_cache_skipped(f, cachefn_ok, delete_ok) ==
    [ok |-> TRUE, err |-> NoError, file |-> f]

\* gs_plugin_odrs_invalidate_cache on the cache file f: cachefn_ok is FALSE
\* when gs_utils_get_cache_filename fails, delete_ok when g_file_delete fails
gs_plugin_odrs_invalidate_cache(f, cachefn_ok, delete_ok) ==
    IF ~cachefn_ok THEN [ok |-> FALSE, err |-> "FAILED", file |-> f]
    ELSE IF ~f.exists THEN [ok |-> TRUE, err |-> NoError, file |-> f]
    ELSE IF ~delete_ok THEN [ok |-> FALSE, err |-> "G_IO_ERROR", file |-> f]
    ELSE [ok |-> TRUE, err |-> NoError, file |-> NoReviewFile]

\* submit and vote from the check of the review server to the result of
\* gs_plugin_odrs_invalidate_cache; j0 is the job with the review as it
\* was handed in, review the review as the call fills it in after the check
InvalidateThenPost(t, j0, review, cachefn_ok, delete_ok) ==
    LET j == [j0 EXCEPT !.review = review]
        id == j.review.app_id
        inv == gs_plugin_odrs_invalidate_cache(ReviewFile(id), cachefn_ok, delete_ok)
    IN
    IF review_server_unset
    THEN /\ job' = [job EXCEPT ![t] = [j0 EXCEPT !.pc = "done", !.ret = FALSE,
                                                 !.err = "NOT_SUPPORTED"]]
         /\ did' = {}
         /\ UNCHANGED review_files
    ELSE /\ job' = [job EXCEPT ![t] =
                      IF inv.ok THEN [j EXCEPT !.pc = "post_send"]
                      ELSE [j EXCEPT !.pc = "done", !.ret = FALSE, !.err = inv.err]]
         /\ review_files' = IF id = NoStr THEN review_files
                            ELSE [review_files EXCEPT ![id] = inv.file]
         /\ did' = IF inv.file # ReviewFile(id) THEN {"cache_delete"} ELSE {}

\* gs_plugin_review_submit up to the POST: the review, handed in without
\* flags and metadata, gets the SELF flag and the id of the app as "app_id"
ReviewSubmit(t, a, cachefn_ok, delete_ok) ==
    /\ job[t].pc = "idle"
    /\ InvalidateThenPost(t, [IdleJob EXCEPT !.op = "submit", !.path = "submit"],
                          [app_id |-> AppId(a), flags |-> {"SELF"}],
                          cachefn_ok, delete_ok)
    /\ UNCHANGED <<settings_review_server, review_server, enabled, origin_hostname,
                   ratings, ratings_file, apps, events, interactive,
                   network_available, cancelled>>
    /\ UNCHANGED <<fwupd_vars, page_vars, list_vars>>

\* gs_plugin_odrs_vote up to the POST
VoteStart(t, review, path, cachefn_ok, delete_ok) ==
    /\ job[t].pc = "idle"
    /\ InvalidateThenPost(t, [IdleJob EXCEPT !.op = "vote", !.path = path,
                                             !.review = review],
                          review, cachefn_ok, delete_ok)
    /\ UNCHANGED <<settings_review_server, review_server, enabled, origin_hostname,
                   ratings, ratings_file, apps, events, interactive,
                   network_available, cancelled>>
    /\ UNCHANGED <<fwupd_vars, page_vars, list_vars>>

\* gs_plugin_odrs_json_post hands the request to the network
PostSend(t) ==
    /\ job[t].op \in {"submit", "vote"}
    /\ job[t].pc = "post_send"
    /\ job' = [job EXCEPT ![t].pc = "post_net"]
    /\ did' = {"net_send"}
    /\ UNCHANGED <<settings_review_server, review_server, enabled, origin_hostname,
                   ratings, ratings_file, review_files, apps, events, interactive,
                   network_available, cancelled>>
    /\ UNCHANGED <<fwupd_vars, page_vars, list_vars>>

\* soup_session_send_message returns in gs_plugin_odrs_json_post; a vote
\* that went through marks the review as voted
PostReply(t, status_code, body) ==
    /\ job[t].op \in {"submit", "vote"}
    /\ job[t].pc = "post_net"
    /\ status_code = "OK" => body.kind # "none"
    /\ LET j == job[t]
           success == gs_plugin_odrs_parse_success(body, network_available)
       IN
       job' = [job EXCEPT ![t] =
                 IF status_code # "OK"
                 THEN [j EXCEPT !.pc = "done", !.ret = FALSE, !.err = "FAILED"]
                 ELSE IF ~success.ok
                 THEN [j EXCEPT !.pc = "done", !.ret = FALSE, !.err = success.err]
                 ELSE [j EXCEPT !.pc = "done", !.ret = TRUE,
                                !.review.flags = IF j.op = "vote"
                                                 THEN @ \cup {"VOTED"} ELSE @]]
    /\ did' = {}
    /\ UNCHANGED <<settings_review_server, review_server, enabled, origin_hostname,
                   ratings, ratings_file, review_files, apps, events, interactive,
                   network_available, cancelled>>
    /\ UNCHANGED <<fwupd_vars, page_vars, list_vars>>

----------------------------------------------------------------------------
(* gs_plugin_add_unvoted_reviews *)

\* one element of the JSON array /moderate answers with: a review with the
\* id of its app (NoStr when the "app_id" member is missing)
Unvoted(user_hash, app_id) ==
    [obj |-> TRUE, user_hash |-> user_hash, rating |-> 60, user_skey |-> "k1",
     app_id |-> app_id]

\* gs_plugin_create_app_dummy: the placeholder app of an id
gs_plugin_create_app_dummy(id) == [id |-> id, reviews |-> <<>>]

\* variant: the hash table never finds the app of an id
unvoted_hash_lookup_miss(added, app_id) == 0

\* g_hash_table_lookup (hash, app_id): the position in the list of the app
\* stored under app_id, 0 when there is none
unvoted_hash_lookup(added, app_id) ==
    IF \E k \in 1..Len(added) : added[k].id = app_id
    THEN CHOOSE k \in 1..Len(added) : added[k].id = app_id
    ELSE 0

\* the loop of gs_plugin_add_unvoted_reviews over the parsed reviews; a
\* review without app_id makes g_str_hash read through a NULL pointer
RECURSIVE AddUnvoted(_, _)
AddUnvoted(reviews, added) ==
    IF reviews = <<>> THEN [crashed |-> FALSE, added |-> added]
    ELSE LET review == Head(reviews)
             app_id == review.app_id
         IN  IF app_id = NoStr THEN [crashed |-> TRUE, added |-> added]
             ELSE LET k == unvoted_hash_lookup(added, app_id)
                      list == IF k = 0
                              THEN Append(added, gs_plugin_create_app_dummy(app_id))
                              ELSE added
                      at == IF k = 0 THEN Len(list) ELSE k
                  IN  AddUnvoted(Tail(reviews),
                                 [list EXCEPT ![at].reviews = Append(@, review)])

\* gs_plugin_add_unvoted_reviews up to the GET of /moderate
UnvotedStart(t) ==
    /\ job[t].pc = "idle"
    /\ LET j == [IdleJob EXCEPT !.op = "unvoted"] IN
       IF review_server_unset
       THEN /\ job' = [job EXCEPT ![t] = [j EXCEPT !.pc = "done", !.ret = FALSE,
                                                   !.err = "NOT_SUPPORTED"]]
            /\ did' = {}
       ELSE /\ job' = [job EXCEPT ![t] = [j EXCEPT !.pc = "moderate_net",
                                                   !.uri = review_server]]
            /\ did' = {"net_send"}
    /\ UNCHANGED <<settings_review_server, review_server, enabled, origin_hostname,
                   ratings, ratings_file, review_files, apps, events, interactive,
                   network_available, cancelled>>
    /\ UNCHANGED <<fwupd_vars, page_vars, list_vars>>

\* soup_session_send_message returns in gs_plugin_add_unvoted_reviews: the
\* reviews are parsed and attached to placeholder apps
UnvotedReply(t, status_code, body) ==
    /\ job[t].op = "unvoted"
    /\ job[t].pc = "moderate_net"
    /\ status_code = "OK" => body.kind # "none"
    /\ LET j == [job[t] EXCEPT !.uri = NoStr]
           success == gs_plugin_odrs_parse_success(body, network_available)
           parsed == gs_plugin_odrs_parse_reviews(body, network_available)
           looped == AddUnvoted(parsed.reviews, <<>>)
       IN
       job' = [job EXCEPT ![t] =
                 IF status_code # "OK"
                 THEN [j EXCEPT !.pc = "done", !.ret = FALSE,
                                !.err = IF ~success.ok THEN success.err
                                        ELSE "DOWNLOAD_FAILED"]
                 ELSE IF ~parsed.ok
                 THEN [j EXCEPT !.pc = "done", !.ret = FALSE, !.err = parsed.err]
                 ELSE IF looped.crashed
                 THEN [j EXCEPT !.pc = "crashed", !.reviews = parsed.reviews]
                 ELSE [j EXCEPT !.pc = "done", !.ret = TRUE,
                                !.reviews = parsed.reviews, !.added = looped.added]]
    /\ did' = {}
    /\ UNCHANGED <<settings_review_server, review_server, enabled, origin_hostname,
                   ratings, ratings_file, review_files, apps, events, interactive,
                   network_available, cancelled>>
    /\ UNCHANGED <<fwupd_vars, page_vars, list_vars>>

----------------------------------------------------------------------------
(* The fwupd plugin *)

\* gs_app_list_add: an app is in a list once
gs_app_list_add(list, app) ==
    IF \E n \in 1..Len(list) : list[n] = app THEN list ELSE Append(list, app)

\* gs_fwupd_app_set_from_device: state, name, summary, version and
\* description of the device
gs_fwupd_app_set_from_device(app, dev) ==
    LET a1 == IF "UPDATABLE" \in dev.flags
              THEN gs_app_set_state(app, "UPDATABLE_LIVE") ELSE app
        a2 == IF dev.name # NoStr
              THEN gs_app_set_text(a1, "name", "NORMAL", dev.name) ELSE a1
        a3 == IF dev.summary # NoStr
              THEN gs_app_set_text(a2, "summary", "NORMAL", dev.summary) ELSE a2
        a4 == IF dev.version # NoStr THEN [a3 EXCEPT !.version = dev.version] ELSE a3
    IN  IF dev.description # NoStr
        THEN gs_app_set_text(a4, "description", "NORMAL", dev.description) ELSE a4

\* gs_fwupd_app_set_from_release: update version and update details
gs_fwupd_app_set_from_release(app, dev) ==
    LET a1 == IF dev.rel_version # NoStr
              THEN [app EXCEPT !.update_version = dev.rel_version] ELSE app
    IN  IF dev.rel_description # NoStr
        THEN [a1 EXCEPT !.update_details = dev.rel_description] ELSE a1

\* gs_plugin_fwupd_new_app_from_device behind the cache: the attributes
\* set on the app that was found or made
new_app_from_device_fill(app, dev) ==
    LET a1 == [app EXCEPT !.kind = "FIRMWARE",
                          !.categories = @ \cup {"System"},
                          !.management_plugin = "fwupd",
                          !.device_id = JoinWith(dev.id, "/")]
        a2 == gs_fwupd_app_set_from_release(gs_fwupd_app_set_from_device(a1, dev), dev)
    IN  [a2 EXCEPT !.id = dev.appstream_id]

\* gs_plugin_fwupd_new_app_from_device_raw: an app for the device itself
gs_plugin_fwupd_new_app_from_device_raw(dev) ==
    LET a0 == [gs_app_set_state(gs_app_new(gs_plugin_fwupd_build_device_id(dev)),
                                "INSTALLED") EXCEPT
                  !.kind = "FIRMWARE", !.management_plugin = "fwupd",
                  !.version = dev.version, !.device_id = JoinWith(dev.id, "/")]
        a1 == gs_app_set_text(a0, "name", "LOWEST", dev.name)
        a2 == gs_app_set_text(a1, "summary", "LOWEST", dev.summary)
    IN  gs_app_set_text(a2, "description", "LOWEST", dev.description)

\* fwupd_checksum_get_by_kind: the checksum of that kind, if any
fwupd_checksum_get_by_kind(checksums, kind) ==
    IF kind \in checksums THEN "sha1:release" ELSE NoStr

\* gs_plugin_fwupd_new_app: the checks on the app new_app_from_device
\* returned; NoError when the app is an update that can be listed
\* (cache: the SHA1 of the file the firmware cache has for the release,
\* NoStr without file, "unreadable" for a file that cannot be read, "nodir"
\* when the cache directory cannot be made)
\* variant: a release without checksums is accepted
gs_plugin_fwupd_new_app_error_unchecked(app, dev, cache) ==
    IF app.state # "UPDATABLE_LIVE" THEN "NOT_SUPPORTED"
    ELSE IF app.id = NoStr THEN "NOT_SUPPORTED"
    ELSE IF app.version = NoStr THEN "NOT_SUPPORTED"
    ELSE IF app.update_version = NoStr THEN "NOT_SUPPORTED"
    ELSE IF dev.uri = NoStr THEN "INVALID_FORMAT"
    ELSE NoError
gs_plugin_fwupd_new_app_error(app, dev, cache) ==
    IF app.state # "UPDATABLE_LIVE" THEN "NOT_SUPPORTED"
    ELSE IF app.id = NoStr THEN "NOT_SUPPORTED"
    ELSE IF app.version = NoStr THEN "NOT_SUPPORTED"
    ELSE IF app.update_version = NoStr THEN "NOT_SUPPORTED"
    ELSE IF dev.checksums = {} THEN "NO_SECURITY"
    ELSE IF dev.uri = NoStr THEN "INVALID_FORMAT"
    ELSE IF cache = "nodir" THEN "FAILED"
    ELSE IF cache = NoStr THEN NoError
    ELSE IF cache = "unreadable" THEN "FAILED"
    ELSE IF cache # fwupd_checksum_get_by_kind(dev.checksums, "SHA1")
    THEN "INVALID_FORMAT"
    ELSE NoError

\* the file of the firmware cache after gs_plugin_fwupd_new_app
\* variant: a file with another checksum is kept
new_app_cache_kept(app, dev, cache) ==
    IF cache = "nodir" THEN NoStr ELSE cache
new_app_cache(app, dev, cache) ==
    IF cache = "nodir" THEN NoStr
    ELSE IF /\ cache \notin {NoStr, "unreadable"}
            /\ gs_plugin_fwupd_new_app_error(app, dev, NoStr) = NoError
            /\ cache # fwupd_checksum_get_by_kind(dev.checksums, "SHA1")
    THEN NoStr
    ELSE cache

\* variant: the update details are written with the highest quality
file_to_app_description_quality_highest == "HIGHEST"

\* gs_plugin_file_to_app: the quality of the description it writes
file_to_app_description_quality == "LOWEST"

\* variant: the version of the device is kept
file_to_app_fill_keeps_version(app) ==
    gs_app_set_text(app, "description", file_to_app_description_quality,
                    app.update_details)

\* gs_plugin_file_to_app behind gs_plugin_fwupd_new_app_from_device
file_to_app_fill(app) ==
    gs_app_set_text([app EXCEPT !.version = app.update_version], "description",
                    file_to_app_description_quality, app.update_details)

\* the loop over the devices goes on with the next one, or the call returns
FwNext(j) ==
    IF j.i < Len(j.devices)
    THEN [j EXCEPT !.pc = "fw_lookup", !.i = j.i + 1, !.app = 0]
    ELSE [j EXCEPT !.pc = "done", !.ret = TRUE, !.app = 0]

\* the call enters its loop over the devices fwupd returned
FwLoop(j, devices) ==
    IF devices = <<>> THEN [j EXCEPT !.pc = "done", !.ret = TRUE]
    ELSE [j EXCEPT !.pc = "fw_lookup", !.devices = devices, !.i = 1]

\* gs_plugin_file_to_app up to its loop: the content type of the file and
\* the answer of fwupd_client_get_details
FileToAppStart(t, content_type, details_ok, devices) ==
    /\ job[t].pc = "idle"
    /\ LET j == [IdleJob EXCEPT !.op = "file_to_app",
                                !.content_type = content_type] IN
       job' = [job EXCEPT ![t] =
                 IF content_type = NoStr
                 THEN [j EXCEPT !.pc = "done", !.ret = FALSE, !.err = "FAILED"]
                 ELSE IF content_type # "application/vnd.ms-cab-compressed"
                 THEN [j EXCEPT !.pc = "done", !.ret = TRUE]
                 ELSE IF ~details_ok
                 THEN [j EXCEPT !.pc = "done", !.ret = FALSE, !.err = "FAILED"]
                 ELSE FwLoop(j, devices)]
    /\ did' = {}
    /\ UNCHANGED <<odrs_vars, cancelled, fwupd_vars, page_vars, list_vars>>

\* gs_plugin_fwupd_error_convert for an error [domain, code]: an error of
\* the plugin domain is left alone, a code of FWUPD_ERROR is mapped, and an
\* error of any other domain becomes FAILED (gs_utils_error_convert_gio
\* and gs_utils_error_convert_gdbus, which come first, keep CANCELLED)
gs_plugin_fwupd_error_convert(error) ==
    IF error.domain = "GS_PLUGIN_ERROR" THEN error
    ELSE [domain |-> "GS_PLUGIN_ERROR",
          code |->
            IF error.domain \in {"G_IO_ERROR", "G_DBUS_ERROR"}
            THEN (IF error.code = "CANCELLED" THEN "CANCELLED" ELSE "FAILED")
            ELSE IF error.domain # "FWUPD_ERROR" THEN "FAILED"
            ELSE IF error.code \in {"ALREADY_PENDING", "INVALID_FILE", "NOT_SUPPORTED"}
            THEN "NOT_SUPPORTED"
            ELSE IF error.code = "AUTH_FAILED" THEN "AUTH_INVALID"
            ELSE IF error.code = "SIGNATURE_INVALID" THEN "NO_SECURITY"
            ELSE IF error.code = "AC_POWER_REQUIRED" THEN "AC_POWER_REQUIRED"
            ELSE IF error.code = "BATTERY_LEVEL_TOO_LOW" THEN "BATTERY_LEVEL_TOO_LOW"
            ELSE "FAILED"]

\* an error of the fwupd client
FwupdError(code) == [domain |-> "FWUPD_ERROR", code |-> code]

\* gs_plugin_add_updates up to its loop: the answer of fwupd_client_get_devices
\* (err2: the local error of the step, before any conversion)
\* variant: every failure to enumerate the devices fails the call
AddUpdatesStart_strict(t, error_local, devices) ==
    /\ job[t].pc = "idle"
    /\ LET j == [IdleJob EXCEPT !.op = "add_updates", !.err2 = error_local] IN
       job' = [job EXCEPT ![t] =
                 IF error_local # NoError
                 THEN [j EXCEPT !.pc = "done", !.ret = FALSE, !.err = "FAILED"]
                 ELSE FwLoop(j, devices)]
    /\ did' = {}
    /\ UNCHANGED <<odrs_vars, cancelled, fwupd_vars, page_vars, list_vars>>
AddUpdatesStart(t, error_local, devices) ==
    /\ job[t].pc = "idle"
    /\ LET j == [IdleJob EXCEPT !.op = "add_updates", !.err2 = error_local] IN
       job' = [job EXCEPT ![t] =
                 IF error_local \in {"NOTHING_TO_DO", "NOT_SUPPORTED", "NOT_FOUND"}
                 THEN [j EXCEPT !.pc = "done", !.ret = TRUE]
                 ELSE IF error_local # NoError
                 THEN [j EXCEPT !.pc = "done", !.ret = FALSE,
                                !.err = gs_plugin_fwupd_error_convert(
                                            FwupdError(error_local)).code]
                 ELSE FwLoop(j, devices)]
    /\ did' = {}
    /\ UNCHANGED <<odrs_vars, cancelled, fwupd_vars, page_vars, list_vars>>

\* gs_plugin_add_updates_historical up to gs_plugin_fwupd_new_app_from_device:
\* the answer of fwupd_client_get_results
AddUpdatesHistoricalStart(t, error_local, dev) ==
    /\ job[t].pc = "idle"
    /\ LET j == [IdleJob EXCEPT !.op = "add_updates_historical"] IN
       job' = [job EXCEPT ![t] =
                 IF error_local \in {"NOTHING_TO_DO", "NOT_FOUND"}
                 THEN [j EXCEPT !.pc = "done", !.ret = TRUE]
                 ELSE IF error_local # NoError
                 THEN [j EXCEPT !.pc = "done", !.ret = FALSE,
                                !.err = gs_plugin_fwupd_error_convert(
                                            FwupdError(error_local)).code]
                 ELSE FwLoop(j, <<dev>>)]
    /\ did' = {}
    /\ UNCHANGED <<odrs_vars, cancelled, fwupd_vars, page_vars, list_vars>>

\* the body of the loop for one device up to gs_plugin_cache_lookup in
\* gs_plugin_fwupd_new_app_from_device: gs_plugin_add_updates lists a locked
\* device as it is and skips devices without support or upgrades; a release
\* without AppStream id gives no app
FwLookup(t) ==
    /\ job[t].op \in {"file_to_app", "add_updates", "add_updates_historical"}
    /\ job[t].pc = "fw_lookup"
    /\ LET j == job[t]
           dev == j.devices[j.i]
       IN
       IF j.op = "add_updates" /\ "LOCKED" \in dev.flags
       THEN /\ Len(fw_apps) < MaxFwApps
            /\ fw_apps' = Append(fw_apps,
                  [gs_plugin_fwupd_new_app_from_device_raw(dev) EXCEPT !.is_locked = TRUE])
            /\ job' = [job EXCEPT ![t] =
                  FwNext([j EXCEPT !.out = gs_app_list_add(@, Len(fw_apps) + 1)])]
            /\ did' = {"app_new"}
       ELSE IF j.op = "add_updates"
               /\ ("SUPPORTED" \notin dev.flags \/ dev.upgrades # "ok")
       THEN /\ job' = [job EXCEPT ![t] = FwNext(j)]
            /\ did' = {}
            /\ UNCHANGED fw_apps
       ELSE IF dev.appstream_id = NoStr
       THEN /\ job' = [job EXCEPT ![t] =
                  IF j.op = "add_updates_historical"
                  THEN [j EXCEPT !.pc = "done", !.ret = FALSE, !.err = "FAILED"]
                  ELSE FwNext(j)]
            /\ did' = {}
            /\ UNCHANGED fw_apps
       ELSE /\ job' = [job EXCEPT ![t].pc = "fw_create",
                          ![t].app = plugin_cache[as_utils_build_data_id(dev.appstream_id)]]
            /\ did' = {"cache_lookup"}
            /\ UNCHANGED fw_apps
    /\ UNCHANGED <<odrs_vars, cancelled, plugin_cache, fw_client, page_vars,
                   list_vars>>

\* the rest of gs_plugin_fwupd_new_app_from_device, with gs_app_new and
\* gs_plugin_cache_add when the lookup found nothing, and the rest of the
\* body of the caller's loop
FwCreate(t, cache) ==
    /\ job[t].op \in {"file_to_app", "add_updates", "add_updates_historical"}
    /\ job[t].pc = "fw_create"
    /\ job[t].op # "add_updates" => cache = NoStr
    /\ LET j == job[t]
           dev == j.devices[j.i]
           id == as_utils_build_data_id(dev.appstream_id)
           k == IF j.app = 0 THEN Len(fw_apps) + 1 ELSE j.app
           app == new_app_from_device_fill(
                     IF j.app = 0 THEN gs_app_new(id) ELSE fw_apps[j.app], dev)
           listed == [j EXCEPT !.out = gs_app_list_add(@, k)]
       IN
       /\ j.app = 0 => Len(fw_apps) < MaxFwApps
       /\ plugin_cache' = IF j.app = 0 THEN [plugin_cache EXCEPT ![id] = k]
                          ELSE plugin_cache
       /\ did' = (IF j.app = 0 THEN {"app_new"} ELSE {}) \cup
                 (IF j.op = "add_updates" /\ new_app_cache(app, dev, cache) # cache
                     /\ cache # "nodir"
                  THEN {"cache_unlink"} ELSE {})
       /\ LET final == IF j.op = "file_to_app" THEN file_to_app_fill(app)
                       ELSE IF j.op = "add_updates"
                               /\ gs_plugin_fwupd_new_app_error(app, dev, cache) = NoError
                       THEN [app EXCEPT !.local_file = TRUE,
                                        !.size_download = IF cache # NoStr THEN 0
                                                          ELSE @]
                       ELSE app IN
          fw_apps' = IF j.app = 0 THEN Append(fw_apps, final)
                     ELSE [fw_apps EXCEPT ![k] = final]
       /\ job' = [job EXCEPT ![t] =
                    IF j.op = "add_updates_historical"
                    THEN [listed EXCEPT !.pc = "done", !.ret = TRUE, !.app = 0]
                    ELSE IF j.op = "add_updates"
                            /\ gs_plugin_fwupd_new_app_error(app, dev, cache) # NoError
                    THEN FwNext([j EXCEPT
                                   !.cache0 = cache,
                                   !.cache = new_app_cache(app, dev, cache),
                                   !.err2 = gs_plugin_fwupd_new_app_error(app, dev, cache)])
                    ELSE FwNext([listed EXCEPT
                                   !.cache0 = cache,
                                   !.cache = new_app_cache(app, dev, cache),
                                   !.err2 = NoError])]
    /\ UNCHANGED <<odrs_vars, cancelled, fw_client, page_vars, list_vars>>

\* gs_plugin_refresh of the fwupd plugin up to its loop over the remotes:
\* the answer of fwupd_client_get_remotes (api: "1.5.2" when the build has
\* FWUPD_CHECK_VERSION(1,5,2), "old" otherwise)
FwRefreshStart(t, api, cache_age, error_local, remotes) ==
    /\ job[t].pc = "idle"
    /\ LET j == [IdleJob EXCEPT !.op = "fw_refresh", !.api = api,
                                !.cache_age = cache_age] IN
       job' = [job EXCEPT ![t] =
                 IF error_local \in {"NOTHING_TO_DO", "NOT_SUPPORTED", "NOT_FOUND"}
                 THEN [j EXCEPT !.pc = "done", !.ret = TRUE]
                 ELSE IF error_local # NoError
                 THEN [j EXCEPT !.pc = "done", !.ret = FALSE, !.err = "FAILED"]
                 ELSE IF remotes = <<>> THEN [j EXCEPT !.pc = "done", !.ret = TRUE]
                 ELSE [j EXCEPT !.pc = "fw_remote", !.remotes = remotes, !.i = 1]]
    /\ did' = {}
    /\ UNCHANGED <<odrs_vars, cancelled, fwupd_vars, page_vars, list_vars>>

\* the body of the loop for one remote, with gs_plugin_fwupd_refresh_remote
\* (the ages the model tells apart are all below G_MAXUINT); result is the
\* outcome of the download when there is one: "ok", "failed", and in the old
\* build "unchanged" (same signature checksum) and "write_failed"
FwRefreshRemote(t, result) ==
    /\ job[t].op = "fw_refresh"
    /\ job[t].pc = "fw_remote"
    /\ LET j == job[t]
           remote == j.remotes[j.i]
           next == IF j.i < Len(j.remotes) THEN [j EXCEPT !.i = j.i + 1]
                   ELSE [j EXCEPT !.pc = "done", !.ret = TRUE]
           failed(err) == [j EXCEPT !.pc = "done", !.ret = FALSE, !.err = err]
       IN
       IF ~remote.enabled \/ remote.kind = "LOCAL"
       THEN result = "ok" /\ job' = [job EXCEPT ![t] = next] /\ did' = {}
       ELSE IF j.api = "old" /\ ~remote.has_cache_sig
       THEN result = "ok" /\ job' = [job EXCEPT ![t] = failed("FAILED")] /\ did' = {}
       ELSE IF j.cache_age > 0 /\ remote.age < j.cache_age
       THEN result = "ok" /\ job' = [job EXCEPT ![t] = next] /\ did' = {}
       ELSE /\ j.api = "1.5.2" => result \in {"ok", "failed"}
            /\ did' = {"download"}
            /\ job' = [job EXCEPT ![t] =
                  IF result \in {"ok", "unchanged"} THEN next
                  ELSE IF result = "write_failed" THEN failed("WRITE_FAILED")
                  ELSE IF j.api = "1.5.2" THEN failed("FAILED")
                  ELSE failed("DOWNLOAD_FAILED")]
    /\ UNCHANGED <<odrs_vars, cancelled, fwupd_vars, page_vars, list_vars>>

\* gs_plugin_fwupd_device_changed_cb, connected to device-added,
\* device-removed and device-changed (did tells the flags of the device
\* too)
\* variant: every notification about an updatable device is signalled
FwDeviceChanged_updatable(dev) ==
    /\ did' = {"device_changed"} \cup dev.flags \cup
              (IF "UPDATABLE" \in dev.flags THEN {"updates_changed"} ELSE {})
    /\ UNCHANGED <<odrs_vars, job, cancelled, fwupd_vars, page_vars, list_vars>>
FwDeviceChanged(dev) ==
    /\ did' = {"device_changed"} \cup dev.flags \cup
              (IF "SUPPORTED" \in dev.flags THEN {"updates_changed"} ELSE {})
    /\ UNCHANGED <<odrs_vars, job, cancelled, fwupd_vars, page_vars, list_vars>>

\* gs_plugin_fwupd_notify_status_cb for the status change of the daemon that
\* reaches the client next
FwNotifyStatus ==
    /\ fw_client.signals # <<>>
    /\ LET status == Head(fw_client.signals)
           k == fw_client.app_current IN
       /\ fw_client' = [fw_client EXCEPT
                          !.signals = Tail(@), !.status = status,
                          !.app_current = IF status = "IDLE" THEN 0 ELSE @]
       /\ fw_apps' = IF k # 0 /\ status \in {"DECOMPRESSING", "DEVICE_RESTART",
                                             "DEVICE_WRITE", "DEVICE_VERIFY"}
                     THEN [fw_apps EXCEPT ![k] = gs_app_set_state(@, "INSTALLING")]
                     ELSE fw_apps
    /\ did' = {}
    /\ UNCHANGED <<odrs_vars, job, cancelled, plugin_cache, page_vars, list_vars>>

\* the plugin loader has one app of another origin; gs_plugin_adopt_app is
\* called for it when no plugin manages it
AdoptApp(kind, management_plugin, local_file) ==
    /\ Len(fw_apps) < MaxFwApps
    /\ \A k \in 1..Len(fw_apps) : fw_apps[k].new_id # "other"
    /\ LET app == [gs_app_set_state(gs_app_new("other"), "AVAILABLE") EXCEPT
                     !.kind = kind, !.local_file = local_file,
                     !.management_plugin = management_plugin] IN
       fw_apps' = Append(fw_apps,
                         IF management_plugin = NoStr /\ kind = "FIRMWARE"
                         THEN [app EXCEPT !.management_plugin = "fwupd"]
                         ELSE app)
    /\ did' = {}
    /\ UNCHANGED <<odrs_vars, job, cancelled, plugin_cache, fw_client, page_vars,
                   list_vars>>

\* the check "only process this app if was created by this plugin"
\* variant: every app is processed
fwupd_manages_any(app) == TRUE
fwupd_manages(app) == app.management_plugin = "fwupd"

\* gs_plugin_app_install, gs_plugin_app_remove, gs_plugin_download_app and
\* gs_plugin_update_app for the app fw_apps[k], with
\* gs_plugin_fwupd_modify_source up to the call of
\* fwupd_client_modify_remote and gs_plugin_fwupd_install up to the call
\* of fwupd_client_install.  file_exists: the local file is in the cache;
\* call_ok: the outcome of the download or of fwupd_client_unlock;
\* statuses: the status changes the daemon goes through while it installs.
\* The err of a job is a code of GS_PLUGIN_ERROR, or "FWUPD" or "IO" for an
\* error that is returned in the domain FWUPD_ERROR or G_IO_ERROR
FwAppStart(t, op, k, file_exists, call_ok, statuses) ==
    /\ job[t].pc = "idle"
    /\ k \in 1..Len(fw_apps)
    /\ Len(fw_client.signals) + Len(statuses) <= MaxSignals
    /\ LET app == fw_apps[k]
           j == [IdleJob EXCEPT !.op = op, !.app = k, !.state0 = app.state]
           return(ret, err) ==
               job' = [job EXCEPT ![t] = [j EXCEPT !.pc = "done", !.ret = ret,
                                                   !.err = err]]
           unused == file_exists /\ call_ok /\ statuses = <<>>
           nothing == did' = {} /\ UNCHANGED fwupd_vars
           modify_source(on) ==
               IF app.remote_id = NoStr
               THEN unused /\ return(FALSE, "FAILED") /\ nothing
               ELSE /\ unused
                    /\ job' = [job EXCEPT ![t] = [j EXCEPT !.pc = "fw_modify"]]
                    /\ did' = {"modify_remote"}
                    /\ fw_apps' = [fw_apps EXCEPT ![k] =
                                     gs_app_set_state(app, IF on THEN "INSTALLING"
                                                           ELSE "REMOVING")]
                    /\ UNCHANGED <<plugin_cache, fw_client>>
           install ==
               IF ~app.local_file
               THEN unused /\ return(FALSE, "FAILED") /\ nothing
               ELSE IF ~file_exists /\ ~call_ok
               THEN /\ statuses = <<>>
                    /\ return(FALSE, "FAILED")
                    /\ did' = {"download"}
                    /\ fw_apps' = [fw_apps EXCEPT ![k] =
                                     gs_app_set_state(app, "INSTALLING")]
                    /\ UNCHANGED <<plugin_cache, fw_client>>
               ELSE /\ file_exists => call_ok
                    /\ job' = [job EXCEPT ![t] =
                                 [j EXCEPT !.pc = "fw_install",
                                           !.dl = IF file_exists THEN "none"
                                                  ELSE "to_cache"]]
                    /\ did' = (IF file_exists THEN {} ELSE {"download"})
                              \cup {"install"}
                    /\ fw_apps' = [fw_apps EXCEPT ![k] =
                                     gs_app_set_state(app, "INSTALLING")]
                    /\ fw_client' = [fw_client EXCEPT !.app_current = k,
                                                      !.signals = @ \o statuses]
                    /\ UNCHANGED plugin_cache
       IN
       IF ~fwupd_manages(app)
       THEN unused /\ return(TRUE, NoError) /\ nothing
       ELSE IF op = "app_install"
       THEN IF app.kind = "REPOSITORY" THEN modify_source(TRUE) ELSE install
       ELSE IF op = "app_remove"
       THEN modify_source(FALSE)
       ELSE IF op = "download_app"
       THEN IF ~app.local_file
            THEN unused /\ return(FALSE, "FAILED") /\ nothing
            ELSE /\ statuses = <<>>
                 /\ file_exists => call_ok
                 /\ did' = IF file_exists THEN {} ELSE {"download"}
                 /\ IF call_ok
                    THEN /\ return(TRUE, NoError)
                         /\ fw_apps' = [fw_apps EXCEPT ![k].size_download = 0]
                    ELSE /\ return(FALSE, "FAILED")
                         /\ fw_apps' = fw_apps
                 /\ UNCHANGED <<plugin_cache, fw_client>>
       ELSE IF app.is_locked
       THEN IF app.device_id = NoStr
            THEN unused /\ return(FALSE, "INVALID_FORMAT") /\ nothing
            ELSE /\ file_exists /\ statuses = <<>>
                 /\ return(call_ok, IF call_ok THEN NoError ELSE "FAILED")
                 /\ did' = {"unlock"}
                 /\ UNCHANGED fwupd_vars
       ELSE install
    /\ UNCHANGED <<odrs_vars, cancelled, page_vars, list_vars>>

\* gs_plugin_fwupd_install from the answer of fwupd_client_install on
\* (delete_ok: g_file_delete of the downloaded file; update_message: the
\* device is found again and has an update message)
FwInstallReply(t, install_ok, delete_ok, update_message) ==
    /\ job[t].pc = "fw_install"
    /\ LET j == job[t]
           app == fw_apps[j.app]
           return(ret, err) ==
               job' = [job EXCEPT ![t] = [j EXCEPT !.pc = "done", !.ret = ret,
                                                   !.err = err]]
           installed == gs_app_set_state(app, "INSTALLED")
       IN
       IF ~install_ok
       THEN /\ delete_ok /\ ~update_message
            /\ return(FALSE, "FAILED")
            /\ fw_apps' = [fw_apps EXCEPT ![j.app] =
                             [app EXCEPT !.state = app.state_recover]]
       ELSE IF j.dl = "to_cache" /\ ~delete_ok
       THEN /\ ~update_message
            /\ return(FALSE, IF j.op = "update_app" THEN "FAILED" ELSE "IO")
            /\ fw_apps' = [fw_apps EXCEPT ![j.app] = installed]
       ELSE /\ j.dl # "to_cache" => delete_ok
            /\ return(TRUE, NoError)
            /\ fw_apps' = [fw_apps EXCEPT ![j.app] =
                             [installed EXCEPT !.needs_user_action =
                                                   @ \/ update_message]]
    /\ did' = {}
    /\ UNCHANGED <<odrs_vars, cancelled, plugin_cache, fw_client, page_vars,
                   list_vars>>

\* gs_plugin_fwupd_modify_source from the answer of
\* fwupd_client_modify_remote on: the error of the client is returned as
\* it is
\* variant: a failure leaves the app in the state of the action
FwModifyReply_no_recover(t, error_local) ==
    /\ job[t].pc = "fw_modify"
    /\ LET j == job[t]
           app == fw_apps[j.app]
       IN
       /\ job' = [job EXCEPT ![t] =
                    [j EXCEPT !.pc = "done", !.ret = error_local = NoError,
                              !.err2 = error_local,
                              !.err = IF error_local = NoError THEN NoError
                                      ELSE "FWUPD"]]
       /\ fw_apps' = [fw_apps EXCEPT ![j.app] =
                        IF error_local # NoError THEN app
                        ELSE gs_app_set_state(app, IF j.op = "app_install"
                                                   THEN "INSTALLED"
                                                   ELSE "AVAILABLE")]
    /\ did' = {}
    /\ UNCHANGED <<odrs_vars, cancelled, plugin_cache, fw_client, page_vars,
                   list_vars>>
FwModifyReply(t, error_local) ==
    /\ job[t].pc = "fw_modify"
    /\ LET j == job[t]
           app == fw_apps[j.app]
       IN
       /\ job' = [job EXCEPT ![t] =
                    [j EXCEPT !.pc = "done", !.ret = error_local = NoError,
                              !.err2 = error_local,
                              !.err = IF error_local = NoError THEN NoError
                                      ELSE "FWUPD"]]
       /\ fw_apps' = [fw_apps EXCEPT ![j.app] =
                        IF error_local # NoError
                        THEN [app EXCEPT !.state = app.state_recover]
                        ELSE gs_app_set_state(app, IF j.op = "app_install"
                                                   THEN "INSTALLED"
                                                   ELSE "AVAILABLE")]
    /\ did' = {}
    /\ UNCHANGED <<odrs_vars, cancelled, plugin_cache, fw_client, page_vars,
                   list_vars>>

\* the id of the app gs_plugin_add_sources makes for a remote
\* ("org.fwupd.%s.remote")
RemoteAppId(id) ==
    CASE id = "lvfs" -> "org.fwupd.lvfs.remote"
      [] id = "lvfs-testing" -> "org.fwupd.lvfs-testing.remote"
      [] OTHER -> "org.fwupd.vendor.remote"

\* the apps gs_plugin_add_sources makes for the remotes from the i-th on:
\* one for each remote of kind DOWNLOAD
RECURSIVE SourceApps(_, _)
SourceApps(remotes, i) ==
    IF i > Len(remotes) THEN <<>>
    ELSE IF remotes[i].kind # "DOWNLOAD" THEN SourceApps(remotes, i + 1)
    ELSE <<[gs_app_set_state(gs_app_new(RemoteAppId(remotes[i].id)),
                             IF remotes[i].enabled THEN "INSTALLED"
                             ELSE "AVAILABLE")
             EXCEPT !.kind = "REPOSITORY", !.remote_id = remotes[i].id,
                    !.management_plugin = "fwupd"]>>
         \o SourceApps(remotes, i + 1)

\* gs_plugin_add_sources: the answer of fwupd_client_get_remotes; its error
\* is returned as it is
AddSources(t, error_local, remotes) ==
    /\ job[t].pc = "idle"
    /\ LET j == [IdleJob EXCEPT !.op = "add_sources", !.err2 = error_local,
                                !.remotes = remotes]
           made == SourceApps(remotes, 1)
       IN
       IF error_local # NoError
       THEN /\ remotes = <<>>
            /\ job' = [job EXCEPT ![t] = [j EXCEPT !.pc = "done", !.ret = FALSE,
                                                   !.err = "FWUPD"]]
            /\ fw_apps' = fw_apps
       ELSE /\ Len(fw_apps) + Len(made) <= MaxFwApps
            /\ job' = [job EXCEPT ![t] =
                         [j EXCEPT !.pc = "done", !.ret = TRUE,
                                   !.out = [k \in 1..Len(made) |->
                                              Len(fw_apps) + k]]]
            /\ fw_apps' = fw_apps \o made
    /\ did' = {}
    /\ UNCHANGED <<odrs_vars, cancelled, plugin_cache, fw_client, page_vars,
                   list_vars>>

\* another plugin writes the name, summary or description of an app it
\* got from a list
AppSetText(k, attr, quality, value) ==
    /\ k \in 1..Len(fw_apps)
    /\ fw_apps' = [fw_apps EXCEPT ![k] = gs_app_set_text(@, attr, quality, value)]
    /\ fw_apps' # fw_apps
    /\ did' = {}
    /\ UNCHANGED <<odrs_vars, job, cancelled, plugin_cache, fw_client, page_vars,
                   list_vars>>

----------------------------------------------------------------------------
(* The mutexes of the ODRS plugin *)

\* what an operation does with priv->review_server_lock and
\* priv->ratings_mutex and when it waits for the network: the calls of
\* g_mutex_locker_new and of g_mutex_locker_free (or the return that frees
\* a g_autoptr(GMutexLocker)), soup_session_send_message and
\* gs_plugin_download_file, in the order of the code
Lock(m) == <<"lock", m>>
Unlock(m) == <<"unlock", m>>
Network == <<<<"send">>, <<"recv">>>>

\* the block "lock review_server_lock, read priv->review_server, unlock"
\* every operation starts with
\* variant: the lock on the review server is kept
WithServer_kept == <<Lock("review_server_lock")>>
WithServer == <<Lock("review_server_lock"), Unlock("review_server_lock")>>

\* gs_plugin_odrs_load_ratings: nothing when the file cannot be parsed,
\* else the swap of priv->ratings under the ratings mutex
LoadRatingsLocking == {<<>>, <<Lock("ratings_mutex"), Unlock("ratings_mutex")>>}

\* gs_plugin_odrs_refine_ratings: the early return without a server, the
\* lookup in the table under the ratings mutex and, when there is no table,
\* the load in between with the mutex released
RefineRatingsLocking ==
    {WithServer, WithServer \o <<Lock("ratings_mutex"), Unlock("ratings_mutex")>>}
    \cup {WithServer \o <<Lock("ratings_mutex"), Unlock("ratings_mutex")>> \o load
             \o (IF load = <<>> THEN <<>>
                 ELSE <<Lock("ratings_mutex"), Unlock("ratings_mutex")>>) :
           load \in LoadRatingsLocking}

\* gs_plugin_odrs_fetch_for_app: every return up to the request, and the
\* request
FetchLocking == {WithServer, WithServer \o Network}

\* the sequences of an operation, one for each way through it
OdrsLocking(op) ==
    CASE op = "review_server_changed_cb" -> {WithServer}
      [] op = "refresh" ->
           {WithServer} \cup {WithServer \o load : load \in LoadRatingsLocking}
           \cup {WithServer \o Network \o load : load \in LoadRatingsLocking}
      [] op = "refine" ->
           FetchLocking \cup RefineRatingsLocking
           \cup {f \o r : f \in FetchLocking, r \in RefineRatingsLocking}
      [] OTHER -> {WithServer, WithServer \o Network}

\* an operation of the plugin starts in a thread on one of its ways
OdrsLockStart(t, op, prog) ==
    /\ job[t].pc = "idle"
    /\ prog \in OdrsLocking(op)
    /\ job' = [job EXCEPT ![t] = [IdleJob EXCEPT !.op = op, !.pc = "locking",
                                                 !.prog = prog, !.i = 1]]
    /\ did' = {}
    /\ UNCHANGED <<odrs_vars, cancelled, fwupd_vars, page_vars, list_vars>>

\* the next call of the sequence: g_mutex_lock waits until no thread
\* holds the mutex, be it the caller itself
OdrsLockStep(t) ==
    /\ job[t].pc = "locking"
    /\ LET j == job[t]
           c == j.prog[j.i]
           held == IF c[1] = "lock" THEN j.held \cup {c[2]}
                   ELSE IF c[1] = "unlock" THEN j.held \ {c[2]}
                   ELSE j.held
       IN
       /\ c[1] = "lock" => \A u \in Threads : c[2] \notin job[u].held
       /\ job' = [job EXCEPT ![t] =
                    IF j.i = Len(j.prog)
                    THEN [j EXCEPT !.pc = "done", !.ret = TRUE, !.held = held]
                    ELSE [j EXCEPT !.i = @ + 1, !.held = held]]
    /\ did' = {}
    /\ UNCHANGED <<odrs_vars, cancelled, fwupd_vars, page_vars, list_vars>>

----------------------------------------------------------------------------
(* The installed page *)

\* the apps the plugin loader knows: kind and description of each
PageApps == {"gimp.desktop", "google-chrome.desktop", "runtime", "os-upgrade"}
gs_app_get_kind(app) ==
    IF app = "os-upgrade" THEN "OPERATING_SYSTEM" ELSE "DESKTOP_APP"
gs_app_get_description(app) ==
    IF app = "gimp.desktop" THEN "An image editor" ELSE NoStr

gs_installed_page_is_actual_app(app) ==
    IF gs_app_get_description(app) # NoStr THEN TRUE
    ELSE IF app = "google-chrome.desktop" THEN TRUE
    ELSE FALSE

gs_installed_page_has_app(rows, app) ==
    \E k \in 1..Len(rows) : rows[k].app = app

\* (from: the list the app came from, "job" or "pending")
gs_installed_page_add_app(rows, app, from) ==
    Append(rows, [app |-> app, from |-> from,
                  visible |-> gs_installed_page_is_actual_app(app)])

RECURSIVE AddPendingRows(_, _, _)
AddPendingRows(rows, list, i) ==
    IF i > Len(list) THEN rows
    ELSE IF gs_app_get_kind(list[i]) = "OPERATING_SYSTEM"
         THEN AddPendingRows(rows, list, i + 1)
    ELSE IF ~gs_installed_page_has_app(rows, list[i])
         THEN AddPendingRows(gs_installed_page_add_app(rows, list[i], "pending"),
                             list, i + 1)
    ELSE AddPendingRows(rows, list, i + 1)

RECURSIVE AddJobRows(_, _, _)
AddJobRows(rows, list, i) ==
    IF i > Len(list) THEN rows
    ELSE AddJobRows(gs_installed_page_add_app(rows, list[i], "job"), list, i + 1)

\* variant: an OS upgrade is counted like any other pending app
gs_installed_page_pending_apps_changed_cb_counts_all(p, list) ==
    [p EXCEPT !.rows = AddPendingRows(p.rows, list, 1),
              !.counter = IF Len(list) = 0 THEN [@ EXCEPT !.visible = FALSE]
                          ELSE [label |-> Len(list), visible |-> TRUE]]
gs_installed_page_pending_apps_changed_cb(p, list) ==
    LET cnt == Cardinality({i \in 1..Len(list) :
                               gs_app_get_kind(list[i]) # "OPERATING_SYSTEM"}) IN
    [p EXCEPT !.rows = AddPendingRows(p.rows, list, 1),
              !.counter = IF cnt = 0 THEN [@ EXCEPT !.visible = FALSE]
                          ELSE [label |-> cnt, visible |-> TRUE]]

\* variant: a job is submitted whether or not one is in flight
gs_installed_page_load_always(p) ==
    [p EXCEPT !.waiting = TRUE, !.rows = <<>>, !.jobs = @ + 1,
              !.stale = FALSE, !.spinner = TRUE, !.stack = "spinner"]
gs_installed_page_load(p) ==
    IF p.waiting THEN p
    ELSE [p EXCEPT !.waiting = TRUE, !.rows = <<>>, !.jobs = @ + 1,
                   !.stale = FALSE, !.spinner = TRUE, !.stack = "spinner"]

\* variant: every failed job is reported
get_installed_error_warns_always(error) == TRUE
get_installed_error_warns(error) == error # "CANCELLED"

InstalledSwitchTo(mode) ==
    /\ LET p == [page EXCEPT !.handler = "switch_to", !.mode = mode,
                             !.warned = 0] IN
       page' = IF mode # "INSTALLED" THEN [p EXCEPT !.warned = 1]
               ELSE IF page.cache_valid THEN p
               ELSE gs_installed_page_load(p)
    /\ UNCHANGED <<odrs_vars, job, cancelled, did, fwupd_vars, pending, list_vars>>

InstalledReload ==
    /\ page' = gs_installed_page_load([page EXCEPT !.cache_valid = FALSE,
                                                   !.stale = TRUE,
                                                   !.handler = "reload",
                                                   !.warned = 0])
    /\ UNCHANGED <<odrs_vars, job, cancelled, did, fwupd_vars, pending, list_vars>>

\* gs_installed_page_get_installed_cb: the job ends with a list, or with
\* list == NULL and an error (its code in the domain GS_PLUGIN_ERROR)
InstalledGetInstalledCb(list_ok, list, error) ==
    /\ page.jobs > 0
    /\ LET p0 == [page EXCEPT !.jobs = @ - 1, !.spinner = FALSE,
                              !.handler = "get_installed_cb",
                              !.stack = "view", !.waiting = FALSE,
                              !.cache_valid = TRUE,
                              !.error = IF list_ok THEN NoError ELSE error,
                              !.warned = 0]
           p1 == IF ~list_ok
                 THEN IF get_installed_error_warns(error)
                      THEN [p0 EXCEPT !.warned = 1]
                      ELSE p0
                 ELSE [p0 EXCEPT !.rows = AddJobRows(p0.rows, list, 1)]
       IN  page' = gs_installed_page_pending_apps_changed_cb(p1, pending)
    /\ UNCHANGED <<odrs_vars, job, cancelled, did, fwupd_vars, pending, list_vars>>

\* signal "pending-apps-changed" of the plugin loader
PendingAppsChanged(list) ==
    /\ list # pending
    /\ pending' = list
    /\ page' = gs_installed_page_pending_apps_changed_cb(
                  [page EXCEPT !.handler = "pending_apps_changed",
                               !.warned = 0], list)
    /\ UNCHANGED <<odrs_vars, job, cancelled, did, fwupd_vars, list_vars>>

----------------------------------------------------------------------------
(* The Entity List and its merge *)

\* an attribute of an Entity: the value and the quality it was written with
MergeAttrs == {"description", "rating"}
UnsetAttr(attr) ==
    [quality |-> "UNKNOWN", value |-> IF attr = "rating" THEN -1 ELSE NoStr]

\* variant: the last write wins whatever its quality
merge_attr_last_wins(old, new) == IF new.quality = "UNKNOWN" THEN old ELSE new

\* the precedence rule: a value is only taken when its quality is above the
\* quality of the value in place
merge_attr(old, new) ==
    IF QualityRank(new.quality) <= QualityRank(old.quality) THEN old ELSE new

merge_entity(old, new) ==
    [old EXCEPT !.attrs = [attr \in MergeAttrs |->
                              merge_attr(old.attrs[attr], new.attrs[attr])]]

\* the Entity a backend output becomes when it is inserted into the list
new_entity(entity) ==
    [key |-> entity.key,
     attrs |-> [attr \in MergeAttrs |->
                   merge_attr(UnsetAttr(attr), entity.attrs[attr])]]

\* merge(list, newEntity): update the Entity of the same identity key in
\* place, attribute by attribute, or insert the new Entity
merge(list, entity) ==
    IF \E k \in 1..Len(list) : list[k].key = entity.key
    THEN [k \in 1..Len(list) |->
             IF list[k].key = entity.key THEN merge_entity(list[k], entity)
             ELSE list[k]]
    ELSE Append(list, new_entity(entity))

\* a backend output is merged into the Entity List of the job
Merge(entity) ==
    /\ Len(merged) < MaxMerged
    /\ entity_list' = merge(entity_list, entity)
    /\ merged' = Append(merged, entity)
    /\ UNCHANGED <<odrs_vars, job, cancelled, did, fwupd_vars, page_vars>>

----------------------------------------------------------------------------
(* The plugin with its worker threads *)

DownloadErrors == {"DOWNLOAD_FAILED"}

\* the worker thread of the single-threaded specifications
Worker == "t1"

\* one worker thread refines lists of apps while settings, network and time change
Next ==
    \/ \E v \in Servers : SettingsChanged(v)
    \/ NetworkChanged
    \/ \E d \in TickDeltas : Tick(d)
    \/ Cancel(Worker)
    \/ Return(Worker)
    \/ \E list \in Lists, flags \in FlagSets : RefineStart(Worker, list, flags)
    \/ RefineApp(Worker)
    \/ \E status_code \in SoupStatus, body \in FetchBodies, write_ok \in BOOLEAN :
          FetchReply(Worker, status_code, body, write_ok)
    \/ RefineAppRatings(Worker)

Spec == Init /\ [][Next]_vars

\* one worker thread refreshes the ratings
NextRefresh ==
    \/ \E v \in Servers : SettingsChanged(v)
    \/ InteractiveChanged
    \/ \E d \in TickDeltas : Tick(d)
    \/ Return(Worker)
    \/ \E cache_age \in CacheAges : RefreshStart(Worker, cache_age)
    \/ \E e \in DownloadErrors : RefreshDownloadFailed(Worker, e)
    \/ \E doc \in RatingsDocs : RefreshDownloaded(Worker, doc)
    \/ \E api \in {"1.5.2", "old"}, cache_age \in CacheAges,
          error_local \in {NoError, "NOT_FOUND", "INTERNAL"},
          remotes \in {<<>>,
                       <<FwRemote("lvfs", TRUE, "DOWNLOAD", 0, TRUE)>>,
                       <<FwRemote("lvfs", FALSE, "DOWNLOAD", 0, TRUE),
                         FwRemote("lvfs-testing", TRUE, "DOWNLOAD", ODRS_REVIEW_CACHE_AGE_MAX,
                                  TRUE)>>,
                       <<FwRemote("vendor", TRUE, "LOCAL", 0, TRUE),
                         FwRemote("lvfs", TRUE, "DOWNLOAD", 0, FALSE)>>} :
          FwRefreshStart(Worker, api, cache_age, error_local, remotes)
    \/ \E result \in {"ok", "failed", "unchanged", "write_failed"} :
          FwRefreshRemote(Worker, result)

SpecRefresh == Init /\ [][NextRefresh]_vars

\* the lists and flags of the concurrent refines
ConcurrentLists == {<<1>>, <<1, 2>>}
ConcurrentFlagSets == {{"REQUIRE_REVIEWS"}}

\* several worker threads refine at the same time
NextConcurrent ==
    \/ \E t \in Threads : Return(t)
    \/ \E t \in Threads, list \in ConcurrentLists, flags \in ConcurrentFlagSets :
          RefineStart(t, list, flags)
    \/ \E t \in Threads : RefineApp(t)
    \/ \E t \in Threads, status_code \in SoupStatus, body \in FetchBodies,
          write_ok \in BOOLEAN : FetchReply(t, status_code, body, write_ok)

SpecConcurrent == Init /\ [][NextConcurrent]_vars

\* the answers of the server to a request for the reviews to moderate
UnvotedBodies ==
    {BodyGarbage, BodyObject(FALSE), BodyArray(<<>>),
     BodyArray(<<Unvoted("u2", "a"), Unvoted("u3", "b"), Unvoted("u4", "a")>>),
     BodyArray(<<Unvoted("u2", "b"), Unvoted("u2", "a"), Unvoted("u3", "b")>>),
     BodyArray(<<Unvoted("u2", "a"), Unvoted("u3", NoStr)>>)}

\* one worker thread fetches, submits and votes on reviews
NextReview ==
    \/ \E v \in Servers : SettingsChanged(v)
    \/ Return(Worker)
    \/ \E list \in {<<1>>, <<1, 2>>} :
          RefineStart(Worker, list, {"REQUIRE_REVIEWS"})
    \/ RefineApp(Worker)
    \/ \E status_code \in SoupStatus,
          body \in {BodyGarbage, BodyArray(<<RvSelf, RvAnon, RvSelf>>)},
          write_ok \in BOOLEAN :
          FetchReply(Worker, status_code, body, write_ok)
    \/ \E a \in AppPool, cachefn_ok \in BOOLEAN, delete_ok \in BOOLEAN :
          ReviewSubmit(Worker, a, cachefn_ok, delete_ok)
    \/ \E app_id \in AppIds \cup {NoStr}, path \in VotePaths,
          cachefn_ok \in BOOLEAN, delete_ok \in BOOLEAN :
          VoteStart(Worker, [app_id |-> app_id, flags |-> {}], path,
                    cachefn_ok, delete_ok)
    \/ PostSend(Worker)
    \/ \E status_code \in SoupStatus,
          body \in {BodyGarbage, BodyObject(TRUE), BodyObject(FALSE)} :
          PostReply(Worker, status_code, body)
    \/ UnvotedStart(Worker)
    \/ \E status_code \in SoupStatus, body \in UnvotedBodies :
          UnvotedReply(Worker, status_code, body)

SpecReview == Init /\ [][NextReview]_vars

\* what each review server holds: its ratings and its reviews of an app
ServerRatings(server) ==
    IF server = "https://odrs" THEN RatingsDocA
    ELSE [kind |-> "object",
          members |-> <<RatingMember("a", <<0, 4, 0, 0, 0, 0>>)>>]
ServerReviews(server) ==
    IF server = "https://odrs" THEN BodyArray(<<RvSelf, RvAnon, RvSelf>>)
    ELSE BodyArray(<<[obj |-> TRUE, user_hash |-> "u3", rating |-> 40,
                      user_skey |-> "k2"]>>)

\* one worker thread refines and refreshes while the review server is
\* switched and fwupd tells about its devices; each request is answered by
\* the server it was sent to
NextSettings ==
    \/ \E v \in {"", "https://odrs", "https://other"} : SettingsChanged(v)
    \/ \E dev \in {DevChiron, DevOther, DevLocked,
                   FwDevice(<<"d6">>, {"UPDATABLE"}, NoStr, NoStr, "ok", {"SHA1"})} :
          FwDeviceChanged(dev)
    \/ \E d \in TickDeltas : Tick(d)
    \/ Return(Worker)
    \/ \E flags \in {{"REQUIRE_REVIEWS"}, {"REQUIRE_RATING"},
                     {"REQUIRE_REVIEWS", "REQUIRE_REVIEW_RATINGS"}} :
          RefineStart(Worker, <<1>>, flags)
    \/ RefineApp(Worker)
    \/ \E status_code \in SoupStatus :
          FetchReply(Worker, status_code,
                     IF status_code = "OK" THEN ServerReviews(job[Worker].uri)
                     ELSE BodyNone, TRUE)
    \/ RefineAppRatings(Worker)
    \/ \E cache_age \in CacheAges : RefreshStart(Worker, cache_age)
    \/ \E e \in DownloadErrors : RefreshDownloadFailed(Worker, e)
    \/ RefreshDownloaded(Worker, ServerRatings(job[Worker].uri))

SpecSettings == Init /\ [][NextSettings]_vars

\* worker threads run the jobs of the fwupd plugin at the same time
NextFwupd ==
    \/ \E t \in Threads : Return(t)
    \/ \E t \in Threads :
          FileToAppStart(t, "application/vnd.ms-cab-compressed", TRUE, <<DevCab>>)
    \/ \E t \in Threads, error_local \in {NoError, "NOT_FOUND", "INTERNAL"} :
          AddUpdatesStart(t, error_local, <<DevLocked, DevChiron>>)
    \/ \E t \in Threads, error_local \in {NoError, "NOT_FOUND", "INTERNAL"},
          dev \in {DevChiron, DevOld} :
          AddUpdatesHistoricalStart(t, error_local, dev)
    \/ \E t \in Threads : FwLookup(t)
    \/ \E t \in Threads : FwCreate(t, NoStr)

SpecFwupd == Init /\ [][NextFwupd]_vars

\* a worker thread installs, removes, downloads and updates apps while the
\* main thread runs the callbacks of the fwupd client
NextInstall ==
    \/ Return(Worker)
    \/ AddUpdatesStart(Worker, NoError, <<DevLocked, DevChiron>>)
    \/ FwLookup(Worker)
    \/ FwCreate(Worker, NoStr)
    \/ AdoptApp("FIRMWARE", NoStr, FALSE)
    \/ AdoptApp("DESKTOP_APP", NoStr, TRUE)
    \/ AdoptApp("FIRMWARE", "packagekit", TRUE)
    \/ \E op \in {"app_install", "app_remove", "download_app", "update_app"},
          k \in 1..MaxFwApps, file_exists \in BOOLEAN, call_ok \in BOOLEAN,
          statuses \in {<<>>, <<"DEVICE_WRITE", "IDLE">>,
                        <<"LOADING", "DECOMPRESSING", "IDLE">>} :
          FwAppStart(Worker, op, k, file_exists, call_ok, statuses)
    \/ \E install_ok \in BOOLEAN, delete_ok \in BOOLEAN, update_message \in BOOLEAN :
          FwInstallReply(Worker, install_ok, delete_ok, update_message)
    \/ FwNotifyStatus

SpecInstall == Init /\ [][NextInstall]_vars

\* one worker thread lists the remotes and the updates, and enables,
\* disables, installs and removes what it listed, with the fwupd client
\* failing in every way
FwupdErrorCodes == {"INTERNAL", "ALREADY_PENDING", "INVALID_FILE", "NOT_SUPPORTED",
                    "AUTH_FAILED", "SIGNATURE_INVALID", "AC_POWER_REQUIRED"}

NextSources ==
    \/ Return(Worker)
    \/ \E error_local \in {NoError, "INTERNAL", "AUTH_FAILED"},
          remotes \in {<<>>,
                       <<FwRemote("lvfs", TRUE, "DOWNLOAD", 0, TRUE),
                         FwRemote("vendor", TRUE, "LOCAL", 0, TRUE)>>,
                       <<FwRemote("lvfs-testing", FALSE, "DOWNLOAD", 0, TRUE)>>} :
          AddSources(Worker, error_local, remotes)
    \/ \E error_local \in {NoError} \cup FwupdErrorCodes :
          AddUpdatesStart(Worker, error_local, <<DevChiron>>)
    \/ FwLookup(Worker)
    \/ FwCreate(Worker, NoStr)
    \/ \E op \in {"app_install", "app_remove", "download_app", "update_app"},
          k \in 1..MaxFwApps, file_exists \in BOOLEAN, call_ok \in BOOLEAN :
          FwAppStart(Worker, op, k, file_exists, call_ok, <<>>)
    \/ \E error_local \in {NoError, "INTERNAL", "AUTH_FAILED"} :
          FwModifyReply(Worker, error_local)
    \/ \E install_ok \in BOOLEAN, delete_ok \in BOOLEAN :
          FwInstallReply(Worker, install_ok, delete_ok, FALSE)

SpecSources == Init /\ [][NextSources]_vars

\* one worker thread looks up the ratings of apps, one of them with its own
\* id among the ids it provides, in tables of every content
NextRatings ==
    \/ \E v \in Servers : SettingsChanged(v)
    \/ Return(Worker)
    \/ \E list \in {<<1>>, <<2>>, <<5>>, <<3, 4, 2>>},
          flags \in {{"REQUIRE_RATING"}, {"REQUIRE_REVIEW_RATINGS"}} :
          RefineStart(Worker, list, flags)
    \/ RefineApp(Worker)
    \/ RefineAppRatings(Worker)
    \/ RefreshStart(Worker, 0)
    \/ \E doc \in RatingsDocs : RefreshDownloaded(Worker, doc)

SpecRatings == Init /\ [][NextRatings]_vars

\* the operations of the ODRS plugin in two threads, step by step through
\* their critical sections
OdrsOps == {"review_server_changed_cb", "refresh", "refine", "review_submit",
            "vote", "add_unvoted_reviews"}

NextLocks ==
    \E t \in Threads :
       \/ Return(t)
       \/ \E op \in OdrsOps : \E prog \in OdrsLocking(op) : OdrsLockStart(t, op, prog)
       \/ OdrsLockStep(t)

SpecLocks == Init /\ [][NextLocks]_vars

\* one worker thread lists the updates of devices of every sort, with the
\* firmware cache in every state
NextUpdates ==
    \/ Return(Worker)
    \/ \E error_local \in {NoError, "NOT_FOUND", "INTERNAL"},
          devices \in
            {<<>>, <<DevLocked, DevChiron>>, <<DevOther, DevChironBare>>,
             <<FwDevice(<<"d7">>, {"SUPPORTED", "UPDATABLE"}, NoStr,
                        "org.other.firmware", "ok", {}), DevOld>>,
             <<[DevChiron EXCEPT !.uri = NoStr],
               FwDevice(<<"d8">>, {"SUPPORTED", "UPDATABLE"}, NoStr,
                        "org.other.firmware", "ok", {"SHA256"})>>,
             <<FwDevice(<<"d9">>, {"SUPPORTED", "UPDATABLE"}, NoStr,
                        "org.other.firmware", "INTERNAL", {"SHA1"}),
               [DevChiron EXCEPT !.rel_version = NoStr], DevCab,
               FwDevice(<<"d3">>, {"SUPPORTED"}, NoStr, "org.other.firmware",
                        "ok", {"SHA1"})>>} :
          AddUpdatesStart(Worker, error_local, devices)
    \/ FwLookup(Worker)
    \/ \E cache \in {NoStr, "sha1:release", "sha1:other", "unreadable", "nodir"} :
          FwCreate(Worker, cache)

SpecUpdates == Init /\ [][NextUpdates]_vars

\* one worker thread turns files into apps while other plugins write
\* attributes of the apps
NextQuality ==
    \/ Return(Worker)
    \/ \E content_type \in {NoStr, "text/plain", "application/vnd.ms-cab-compressed"},
          details_ok \in BOOLEAN,
          devices \in {<<>>, <<DevCab>>, <<DevChironBare, DevOld>>, <<DevOther>>} :
          FileToAppStart(Worker, content_type, details_ok, devices)
    \/ FwLookup(Worker)
    \/ FwCreate(Worker, NoStr)
    \/ \E k \in 1..MaxFwApps, attr \in {"name", "description"},
          quality \in {"LOWEST", "NORMAL", "HIGHEST"} :
          AppSetText(k, attr, quality, "other")

SpecQuality == Init /\ [][NextQuality]_vars

\* the installed page: the shell switches to it and reloads it, jobs end
\* and the list of pending apps changes
NextInstalled ==
    \/ \E mode \in {"INSTALLED", "OVERVIEW"} : InstalledSwitchTo(mode)
    \/ InstalledReload
    \/ \E list \in {<<>>, <<"gimp.desktop">>,
                    <<"gimp.desktop", "google-chrome.desktop", "runtime">>} :
          InstalledGetInstalledCb(TRUE, list, NoError)
    \/ \E code \in {"CANCELLED", "FAILED", "TIMED_OUT"} :
          InstalledGetInstalledCb(FALSE, <<>>, code)
    \/ \E list \in {<<>>, <<"runtime">>, <<"os-upgrade", "gimp.desktop">>} :
          PendingAppsChanged(list)

SpecInstalled == Init /\ [][NextInstalled]_vars

\* the outputs of the backends of one job: every attribute is either left
\* alone or written with a quality
BackendOutputs ==
    {[key |-> key, attrs |-> [description |-> d, rating |-> r]] :
        key \in {"system/*/*/org.example.App/*", "system/*/*/org.example.Other/*"},
        d \in {UnsetAttr("description")} \cup
                 [quality : {"LOWEST", "HIGHEST"}, value : {"d1", "d2"}],
        r \in {UnsetAttr("rating")} \cup
                 [quality : {"LOWEST", "HIGHEST"}, value : {60, 80}]}

NextMerge == \E entity \in BackendOutputs : Merge(entity)

SpecMerge == Init /\ [][NextMerge]_vars

----------------------------------------------------------------------------
(* Properties *)

\* thread t is in gs_plugin_refine and takes the step in question
RefineStep(t) == job[t].op = "refine" /\ job'[t] # job[t]

\* the app ids of the loaded ratings table
RatedIds == {ratings.rows[k].app_id : k \in 1..Len(ratings.rows)}

\* C1: a refine requesting a ratings flag, on a valid app whose
\* review_ratings are already set, loads no ratings table, looks nothing up
\* and leaves review_ratings and rating as they are; when reviews are not
\* requested as well it performs no backend operation at all
C1_RatingsAlreadySet ==
    [][\A t \in Threads :
         (/\ RefineStep(t)
          /\ job[t].pc \in {"refine_loop", "ratings"}
          /\ job[t].flags \cap RatingFlags # {}
          /\ refine_app_valid(CurApp(job[t]))
          /\ apps[CurApp(job[t])].review_ratings # <<>>)
         => LET a == CurApp(job[t]) IN
            /\ "ratings_load" \notin did'
            /\ "ratings_lookup" \notin did'
            /\ ratings' = ratings
            /\ apps'[a].review_ratings = apps[a].review_ratings
            /\ apps'[a].rating = apps[a].rating
            /\ "REQUIRE_REVIEWS" \notin job[t].flags
                  => did' = {} /\ job'[t].pc # "fetch_net" /\ apps' = apps]_vars

\* C1 witness: a refine for ratings only has left refine_app through the
\* "ratings already set" return
C1_Witness ==
    \E t \in Threads :
       /\ job[t].op = "refine"
       /\ "REQUIRE_REVIEWS" \notin job[t].flags
       /\ \E k \in 1..Len(job[t].outcomes) :
             /\ job[t].outcomes[k].via = "has_review_ratings"
             /\ apps[job[t].list[k]].review_ratings # <<>>

\* C2: a refine requesting reviews, on a valid app that already has
\* reviews, reads no review cache file, sends no request and adds no review
C2_ReviewsAlreadySet ==
    [][\A t \in Threads :
         (/\ RefineStep(t)
          /\ job[t].pc = "refine_loop"
          /\ "REQUIRE_REVIEWS" \in job[t].flags
          /\ refine_app_valid(CurApp(job[t]))
          /\ Len(apps[CurApp(job[t])].reviews) > 0)
         => /\ "cache_read" \notin did'
            /\ "net_send" \notin did'
            /\ job'[t].pc # "fetch_net"
            /\ apps' = apps
            /\ review_files' = review_files]_vars

\* C2 witness: a refine for reviews has left refine_app through the
\* "already has reviews" return
C2_Witness ==
    \E t \in Threads :
       /\ job[t].op = "refine"
       /\ "REQUIRE_REVIEWS" \in job[t].flags
       /\ \E k \in 1..Len(job[t].outcomes) :
             /\ job[t].outcomes[k].via = "has_reviews"
             /\ Len(apps[job[t].list[k]].reviews) > 0

\* C3: when refine_app is done, without error, with an app for which
\* reviews and a ratings flag were requested, that already had reviews but
\* no review_ratings and whose id is in the loaded ratings table, the app
\* has review_ratings
C3_AllFlagsHandled ==
    [][\A t \in Threads :
         (/\ RefineStep(t)
          /\ job[t].pc = "refine_loop"
          /\ "REQUIRE_REVIEWS" \in job[t].flags
          /\ job[t].flags \cap RatingFlags # {}
          /\ refine_app_valid(CurApp(job[t]))
          /\ Len(apps[CurApp(job[t])].reviews) > 0
          /\ apps[CurApp(job[t])].review_ratings = <<>>
          /\ ~review_server_unset
          /\ ratings.loaded
          /\ AppId(CurApp(job[t])) \in RatedIds
          /\ Len(job'[t].outcomes) = Len(job[t].outcomes) + 1
          /\ job'[t].outcomes[Len(job'[t].outcomes)].err = NoError)
         => apps'[CurApp(job[t])].review_ratings # <<>>]_vars

\* C4: a NO_NETWORK failure of one app does not stop the loop: the next app
\* of the list is refined as well, and when no app failed otherwise every app
\* has been refined and the call returns TRUE with no error set
C4_NoNetworkContinues ==
    \A t \in Threads :
       (job[t].op = "refine" /\ job[t].pc = "done")
       => \A k \in 1..Len(job[t].outcomes) :
             job[t].outcomes[k].err = "NO_NETWORK"
             => /\ k < Len(job[t].list) => Len(job[t].outcomes) > k
                /\ (\A m \in 1..Len(job[t].outcomes) :
                       job[t].outcomes[m].err \in {NoError, "NO_NETWORK"})
                   => /\ job[t].ret = TRUE
                      /\ job[t].err = NoError
                      /\ Len(job[t].outcomes) = Len(job[t].list)

\* C4 witness: a call has returned TRUE although its first app failed with
\* NO_NETWORK, and the second app was refined
C4_Witness ==
    \E t \in Threads :
       /\ job[t].op = "refine"
       /\ job[t].pc = "done"
       /\ job[t].ret = TRUE
       /\ Len(job[t].list) >= 2
       /\ Len(job[t].outcomes) = Len(job[t].list)
       /\ job[t].outcomes[1].err = "NO_NETWORK"

\* C5: as soon as one app fails with an error other than NO_NETWORK the
\* call is over: it returns FALSE with that error and no later app is refined
C5_OtherErrorAborts ==
    \A t \in Threads :
       job[t].op = "refine"
       => \A k \in 1..Len(job[t].outcomes) :
             job[t].outcomes[k].err \notin {NoError, "NO_NETWORK"}
             => /\ job[t].pc = "done"
                /\ job[t].ret = FALSE
                /\ job[t].err = job[t].outcomes[k].err
                /\ Len(job[t].outcomes) = k

\* C5 witness: a call has returned INVALID_FORMAT before the end of its list
C5_Witness ==
    \E t \in Threads :
       /\ job[t].op = "refine"
       /\ job[t].pc = "done"
       /\ job[t].ret = FALSE
       /\ job[t].err = "INVALID_FORMAT"
       /\ Len(job[t].outcomes) < Len(job[t].list)

\* C6: when gs_plugin_refine returns TRUE, every failure of one of its apps
\* has been reported as an event
C6_FailureEventRecorded ==
    \A t \in Threads :
       (job[t].op = "refine" /\ job[t].pc = "done" /\ job[t].ret = TRUE)
       => \A k \in 1..Len(job[t].outcomes) :
             job[t].outcomes[k].err # NoError
             => \E e \in 1..Len(events) : events[e].error = job[t].outcomes[k].err

\* C7: at most one request for the reviews of one app id is in flight
C7_OneRequestPerApp ==
    \A id \in AppIds :
       Cardinality({t \in Threads : /\ job[t].op = "refine"
                                    /\ job[t].pc = "fetch_net"
                                    /\ AppId(CurApp(job[t])) = id}) <= 1

\* C8: a failed ratings download ends gs_plugin_refresh with TRUE, reports
\* exactly one event, with action DOWNLOAD and the plugin's origin, and
\* leaves the loaded ratings table alone
C8_DownloadFailureReported ==
    [][\A t \in Threads :
         (job[t].op = "refresh" /\ job[t].pc = "download" /\ job'[t].dl = "failed")
         => /\ job'[t].pc = "done"
            /\ job'[t].ret = TRUE
            /\ job'[t].err = NoError
            /\ Len(events') = Len(events) + 1
            /\ SubSeq(events', 1, Len(events)) = events
            /\ events'[Len(events')].action = "DOWNLOAD"
            /\ events'[Len(events')].origin = cached_origin
            /\ ratings' = ratings]_vars

\* C8 witness: a refresh has failed to download while a ratings table was loaded
C8_Witness ==
    \E t \in Threads :
       /\ job[t].op = "refresh"
       /\ job[t].pc = "done"
       /\ job[t].dl = "failed"
       /\ job[t].ret = TRUE
       /\ ratings.loaded
       /\ Len(ratings.rows) > 0
       /\ Len(events) = 1

\* C9 as stated: every event of a failed ratings download is a WARNING and
\* never FATAL
C9_AlwaysWarning ==
    \A k \in 1..Len(events) :
       events[k].action = "DOWNLOAD"
       => "WARNING" \in events[k].flags /\ "FATAL" \notin events[k].flags

\* C9 amended: the event of a failed ratings download is never FATAL; it is
\* a WARNING exactly when the plugin does not run interactive, and carries
\* the INTERACTIVE flag instead when it does
C9_WarningUnlessInteractive ==
    [][Len(events') > Len(events)
       => LET e == events'[Len(events')] IN
          e.action = "DOWNLOAD"
          => /\ "FATAL" \notin e.flags
             /\ "WARNING" \in e.flags <=> ~interactive
             /\ "INTERACTIVE" \in e.flags <=> interactive]_vars

\* C9 witness: a failed download has been reported by an interactive plugin
C9_Witness ==
    \E k \in 1..Len(events) :
       events[k].action = "DOWNLOAD" /\ events[k].flags = {"INTERACTIVE"}

\* C10: once the job is cancelled, gs_plugin_refine sends no review request
\* and loads no ratings table
C10_NoBackendAfterCancel ==
    [][\A t \in Threads :
         (RefineStep(t) /\ cancelled[t] /\ job[t].pc \in {"refine_loop", "ratings"})
         => /\ "net_send" \notin did'
            /\ "ratings_load" \notin did'
            /\ job'[t].pc # "fetch_net"]_vars

\* C11: a review fetch that ends in an error (status not OK, response not
\* parsed, file not written) leaves every review cache file as it was, so
\* the app's file is still missing or too old and the next fetch goes to the
\* server; a step of the fetch only writes a file whose contents parse
C11_FailedFetchWritesNothing ==
    [][\A t \in Threads :
          (job[t].op = "refine" /\ job[t].pc = "fetch_net" /\ job'[t] # job[t]) =>
             LET id == AppId(CurApp(job[t]))
                 last == job'[t].outcomes[Len(job'[t].outcomes)]
                 failed == /\ Len(job'[t].outcomes) = Len(job[t].outcomes) + 1
                           /\ last.via = "reviews_failed"
             IN  /\ failed =>
                       /\ review_files' = review_files
                       /\ ~file_age_less(review_files'[id], ODRS_REVIEW_CACHE_AGE_MAX)
                 /\ review_files' # review_files =>
                       /\ ~failed
                       /\ gs_plugin_odrs_parse_reviews(review_files'[id].data,
                                                       network_available).ok]_vars

\* a fetch from the server has failed on a response that does not parse,
\* and the cache file of the app is still missing
C11_Witness ==
    \E t \in Threads :
       /\ job[t].op = "refine"
       /\ Len(job[t].outcomes) > 0
       /\ job[t].outcomes[Len(job[t].outcomes)] =
             [err |-> "INVALID_FORMAT", via |-> "reviews_failed"]
       /\ did = {}
       /\ ~review_files[AppId(job[t].list[Len(job[t].outcomes)])].exists

\* C12: refine_app reads the cached review file without a request to the
\* server exactly when the file is younger than one week (604800 seconds),
\* and sends a request when the file is older or missing
C12_FreshForOneWeek ==
    [][\A t \in Threads :
          (/\ job[t].op = "refine" /\ job[t].pc = "refine_loop"
           /\ job'[t] # job[t]
           /\ did' \cap {"cache_read", "net_send"} # {}) =>
             LET f == review_files[AppId(CurApp(job[t]))] IN
             IF f.exists /\ f.age < 604800
             THEN did' = {"cache_read"}
             ELSE did' = {"net_send"}]_vars

\* C13: in gs_plugin_review_submit and in every vote the cache file named by
\* the review's app_id is gone when the request is handed to the network,
\* and when the file is still there after the attempt to delete it the call
\* has failed without a request
C13_CacheDeletedBeforePost ==
    [][\A t \in Threads :
          /\ (job[t].op \in {"submit", "vote"} /\ job'[t] # job[t]
               /\ "net_send" \in did') =>
                 ~ReviewFile(job[t].review.app_id).exists
          /\ (job[t].pc = "idle" /\ job'[t].op \in {"submit", "vote"}
               /\ ~review_server_unset
               /\ job'[t].review.app_id # NoStr
               /\ review_files'[job'[t].review.app_id].exists) =>
                 /\ job'[t].pc = "done"
                 /\ ~job'[t].ret
                 /\ "net_send" \notin did']_vars

\* a vote has deleted the cache file of the review's app and is about to
\* send its request
C13_Witness ==
    \E t \in Threads :
       /\ job[t].op = "vote"
       /\ job[t].pc = "post_send"
       /\ did = {"cache_delete"}
       /\ job[t].review.app_id \in AppIds

\* what refine sets on a fresh app from the data the server holds
ReviewsFrom(server) ==
    refine_reviews_apply(NewApp,
        gs_plugin_odrs_parse_reviews(ServerReviews(server), TRUE).reviews).reviews
ReviewRatingsFrom(server, a) ==
    AccumulateRatings(
        load_ratings([exists |-> TRUE, age |-> 0, data |-> ServerRatings(server)]).rows,
        gs_app_get_reviewable_ids(a), <<0, 0, 0, 0, 0, 0>>, 0).ratings_raw

\* C14: after the review server has changed, every refine_app that starts
\* its reviews block or its ratings block sets the reviews and the review
\* ratings of an app only from data of the review server now configured
C14_NoDataOfPreviousServer ==
    [][\A t \in Threads :
          (/\ job[t].op = "refine"
           /\ job[t].pc \in {"refine_loop", "ratings"}
           /\ job'[t] # job[t]) =>
             \A a \in AppPool :
                /\ apps'[a].reviews # apps[a].reviews =>
                      apps'[a].reviews = ReviewsFrom(review_server)
                /\ apps'[a].review_ratings # apps[a].review_ratings =>
                      apps'[a].review_ratings = ReviewRatingsFrom(review_server, a)]_vars

\* C15: an unset or empty review server disables the plugin, and every step
\* gs_plugin_refresh and gs_plugin_refine take from their check of the
\* server on sends nothing, reads and writes no cache file, changes no app
\* and reports no event; a call that ends there returns TRUE
C15_DisabledDoesNothing ==
    [][/\ review_server \in {NoStr, ""} => ~enabled
       /\ \A t \in Threads :
             (/\ review_server \in {NoStr, ""}
              /\ \/ job[t].pc = "idle" /\ job'[t].op \in {"refine", "refresh"}
                 \/ /\ job[t].op = "refine"
                    /\ job[t].pc \in {"refine_loop", "ratings"}
                    /\ job'[t] # job[t]) =>
                /\ did' = {}
                /\ UNCHANGED <<apps, ratings, ratings_file, review_files, events>>
                /\ job'[t].pc \notin {"fetch_net", "download"}
                /\ job'[t].pc = "done" => job'[t].ret /\ job'[t].err = NoError]_vars

\* a refresh that must not use the cache has returned without a download,
\* and a refine has gone through its list, while the review server is empty
C15_Witness ==
    /\ review_server = ""
    /\ ~enabled
    /\ \E t \in Threads :
          /\ job[t].pc = "done"
          /\ \/ job[t].op = "refresh" /\ job[t].cache_age = 0 /\ job[t].dl = "none"
             \/ /\ job[t].op = "refine"
                /\ "REQUIRE_REVIEWS" \in job[t].flags
                /\ job[t].outcomes = <<[err |-> NoError, via |-> "end"]>>
                /\ apps[job[t].list[1]] = NewApp

\* C18: after gs_plugin_add_unvoted_reviews has returned TRUE the apps it
\* added have pairwise different ids, these ids are the app_ids of the
\* reviews that were returned, and the reviews of each added app are, in
\* order, the returned reviews that carry its id
C18_OneAppPerAppId ==
    \A t \in Threads :
       (job[t].op = "unvoted" /\ job[t].pc = "done" /\ job[t].ret) =>
          LET added == job[t].added
              reviews == job[t].reviews
          IN  /\ \A k, l \in 1..Len(added) : added[k].id = added[l].id => k = l
              /\ {added[k].id : k \in 1..Len(added)} =
                    {reviews[n].app_id : n \in 1..Len(reviews)}
              /\ \A k \in 1..Len(added) :
                    added[k].reviews =
                       SelectSeq(reviews, LAMBDA r : r.app_id = added[k].id)

\* the call has returned three reviews of two apps
C18_Witness ==
    \E t \in Threads :
       /\ job[t].op = "unvoted" /\ job[t].pc = "done" /\ job[t].ret
       /\ Len(job[t].reviews) = 3
       /\ Len(job[t].added) = 2

\* C16: no step replaces a name, summary or description that was written
\* with a quality above LOWEST by a value written with quality LOWEST, and
\* when gs_plugin_file_to_app has handled a device that has a description
\* the app's description is the one in place before or else the device's,
\* not the update details
C16_LowestNeverReplaces ==
    [][/\ \A k \in 1..Len(fw_apps), attr \in TextAttrs :
             (/\ QualityRank(fw_apps[k].quality[attr]) > QualityRank("LOWEST")
              /\ fw_apps'[k].text[attr] # fw_apps[k].text[attr]) =>
                fw_apps'[k].quality[attr] # "LOWEST"
       /\ \A t \in Threads :
             (/\ job[t].op = "file_to_app" /\ job[t].pc = "fw_create"
              /\ job'[t] # job[t]
              /\ job[t].devices[job[t].i].description # NoStr) =>
                LET dev == job[t].devices[job[t].i]
                    k == IF job[t].app = 0 THEN Len(fw_apps) + 1 ELSE job[t].app
                    kept == /\ job[t].app # 0
                            /\ QualityRank(fw_apps[k].quality["description"]) >=
                                  QualityRank("NORMAL")
                IN  /\ fw_apps'[k].update_details = dev.rel_description
                    /\ fw_apps'[k].text["description"] =
                          IF kept THEN fw_apps[k].text["description"]
                          ELSE dev.description]_vars

\* gs_plugin_file_to_app has returned an app whose description is the
\* device's while its update details are another text
C16_Witness ==
    \E t \in Threads :
       /\ job[t].op = "file_to_app" /\ job[t].pc = "done" /\ job[t].ret
       /\ Len(job[t].out) = 1
       /\ LET app == fw_apps[job[t].out[1]] IN
          /\ app.text["description"] = DevCab.description
          /\ app.quality["description"] = "NORMAL"
          /\ app.update_details = DevCab.rel_description

\* C17: whatever the interleaving of gs_plugin_add_updates,
\* gs_plugin_add_updates_historical and gs_plugin_file_to_app, at most one
\* app object has been made for each firmware data-id
C17_OneAppPerDataId ==
    \A id \in FwDataIds :
       Cardinality({k \in 1..Len(fw_apps) : fw_apps[k].new_id = id}) <= 1

\* C20: when the GET_INSTALLED job of the installed page ends with error
\* CANCELLED, no warning is emitted and no row is added from the job; any
\* other error emits exactly one warning; in both cases the page leaves the
\* waiting state and shows the list view
C20_CancelledIsSilent ==
    [][(page'.jobs < page.jobs /\ page'.error # NoError) =>
          /\ page'.error = "CANCELLED" =>
                /\ page'.warned = 0
                /\ \A k \in 1..Len(page'.rows) : page'.rows[k].from # "job"
          /\ page'.error # "CANCELLED" => page'.warned = 1
          /\ ~page'.waiting
          /\ page'.stack = "view"]_vars

\* a cancelled job has ended while an app was pending: the page shows the
\* view with the pending app's row and nothing was reported
C20_Witness ==
    /\ page.error = "CANCELLED" /\ page.jobs = 0 /\ page.warned = 0
    /\ page.stack = "view" /\ ~page.waiting
    /\ Len(page.rows) = 1 /\ page.rows[1].from = "pending"

\* the two outputs merged so far are for one identity key
TwoOutputsOneKey == Len(merged) = 2 /\ merged[1].key = merged[2].key

\* the list is the one the other order gives, it has a single entry, and
\* where one output wrote an attribute with a higher quality than the other
\* that value is the entry's
SameInEitherOrder ==
    /\ entity_list = merge(merge(<<>>, merged[2]), merged[1])
    /\ Len(entity_list) = 1
    /\ \A attr \in MergeAttrs, i \in 1..2 :
          QualityRank(merged[i].attrs[attr].quality) >
             QualityRank(merged[3 - i].attrs[attr].quality)
          => entity_list[1].attrs[attr] = merged[i].attrs[attr]

\* C19 (as stated): for any two backend outputs for the same identity key
\* that write attributes with explicit quality ranks, merging them in either
\* order yields a single entry with the same final attribute values, the
\* higher-quality value winning for each attribute
C19_MergeOrderIndependent == TwoOutputsOneKey => SameInEitherOrder

\* no attribute is written by both outputs with one quality and two values
DistinctRanks ==
    \A attr \in MergeAttrs :
       \/ merged[1].attrs[attr].quality # merged[2].attrs[attr].quality
       \/ merged[1].attrs[attr].value = merged[2].attrs[attr].value

\* C19 (amended): the same, for two outputs that do not write one attribute
\* with the same quality rank and different values
C19_MergeOrderIndependentDistinctRanks ==
    (TwoOutputsOneKey /\ DistinctRanks) => SameInEitherOrder

\* backend A wrote description "d1" with the lowest quality, backend B wrote
\* description "d2" and rating 80 with the highest: one entry, "d2" and 80
C19_Witness ==
    /\ TwoOutputsOneKey
    /\ merged[1].attrs["description"] = [quality |-> "LOWEST", value |-> "d1"]
    /\ merged[1].attrs["rating"] = UnsetAttr("rating")
    /\ merged[2].attrs["description"] = [quality |-> "HIGHEST", value |-> "d2"]
    /\ merged[2].attrs["rating"] = [quality |-> "HIGHEST", value |-> 80]
    /\ Len(entity_list) = 1
    /\ entity_list[1].attrs["description"].value = "d2"
    /\ entity_list[1].attrs["rating"].value = 80

\* what gs_plugin_file_to_app does with a file: a step that handles a device
\* of a cabinet gives a firmware app of category System whose version is the
\* release's and whose state is as state_of says; a file of another content
\* type gives success and no app
FileToAppProduces(state_of(_, _)) ==
    \A t \in Threads :
       /\ (job[t].op = "file_to_app" /\ job[t].pc = "fw_create"
              /\ job'[t].pc # "fw_create") =>
             LET dev == job[t].devices[job[t].i]
                 k == IF job[t].app = 0 THEN Len(fw_apps) + 1 ELSE job[t].app
             IN  /\ Len(fw_apps') >= k
                 /\ \E n \in 1..Len(job'[t].out) : job'[t].out[n] = k
                 /\ fw_apps'[k].kind = "FIRMWARE"
                 /\ "System" \in fw_apps'[k].categories
                 /\ fw_apps'[k].version = dev.rel_version
                 /\ fw_apps'[k].state = state_of(t, dev)
       /\ (job[t].pc = "idle" /\ job'[t].op = "file_to_app"
              /\ job'[t].content_type \notin
                    {NoStr, "application/vnd.ms-cab-compressed"}) =>
             /\ job'[t].pc = "done" /\ job'[t].ret
             /\ job'[t].out = <<>> /\ fw_apps' = fw_apps

StateUnknown(t, dev) == "UNKNOWN"

\* C22 (as stated): every app gs_plugin_file_to_app produces from a cabinet
\* file is a firmware app of category System whose version is the update
\* version of the release and whose state is UNKNOWN; a file of another
\* content type gives success and no app
C22_FileToAppStateUnknown == [][FileToAppProduces(StateUnknown)]_vars

StateOfDevice(t, dev) ==
    IF "UPDATABLE" \in dev.flags THEN "UPDATABLE_LIVE"
    ELSE IF job[t].app = 0 THEN "UNKNOWN"
    ELSE fw_apps[job[t].app].state

\* C22 (amended): the same, the state being UPDATABLE_LIVE when the device
\* fwupd reports for the file is updatable, UNKNOWN for a new app of another
\* device, and left as it is on an app found in the plugin cache
C22_FileToAppStateOfDevice == [][FileToAppProduces(StateOfDevice)]_vars

\* gs_plugin_file_to_app has returned a firmware app in state UNKNOWN whose
\* version is the update version and not the device's
C22_Witness ==
    \E t \in Threads :
       /\ job[t].op = "file_to_app" /\ job[t].pc = "done" /\ job[t].ret
       /\ Len(job[t].out) = 1
       /\ LET app == fw_apps[job[t].out[1]] IN
          /\ app.kind = "FIRMWARE" /\ "System" \in app.categories
          /\ app.state = "UNKNOWN"
          /\ app.version = DevCab.rel_version /\ app.version # DevCab.version

\* C21: gs_plugin_refresh with cache_age > 0 does not download data whose
\* age is below cache_age (ODRS loads the ratings from the cache file
\* instead, fwupd goes on to the next remote); with cache_age = 0 the age
\* makes no difference and the download is attempted
C21_FreshDataNotDownloaded ==
    [][\A t \in Threads :
          /\ (job[t].pc = "idle" /\ job'[t].op = "refresh"
                 /\ review_server \notin {NoStr, ""}) =>
                IF job'[t].cache_age > 0 /\ ratings_file.exists
                      /\ ratings_file.age < job'[t].cache_age
                THEN /\ did' = {"ratings_load"}
                     /\ job'[t].pc = "done"
                     /\ job'[t].ret => ratings'.rows = load_ratings(ratings_file).rows
                ELSE did' = {"download"} /\ job'[t].pc = "download"
          /\ (job[t].op = "fw_refresh" /\ job[t].pc = "fw_remote"
                 /\ job'[t] # job[t]) =>
                LET remote == job[t].remotes[job[t].i] IN
                (/\ remote.enabled /\ remote.kind # "LOCAL"
                 /\ job[t].api = "1.5.2" \/ remote.has_cache_sig) =>
                   IF job[t].cache_age > 0 /\ remote.age < job[t].cache_age
                   THEN did' = {} /\ job'[t].err = NoError
                   ELSE did' = {"download"}]_vars

\* a refresh of the fwupd plugin with cache_age > 0 has skipped a remote
\* that is younger and returned success without any download
C21_Witness ==
    \E t \in Threads :
       /\ job[t].op = "fw_refresh" /\ job[t].pc = "done" /\ job[t].ret
       /\ Len(job[t].remotes) = 1 /\ job[t].remotes[1].enabled
       /\ job[t].remotes[1].kind = "DOWNLOAD"
       /\ job[t].cache_age > job[t].remotes[1].age
       /\ did = {}


\* the last step was a device-added, device-removed or device-changed
\* notification
DeviceNotified == "device_changed" \in did'

\* C23 (as stated): updates-changed is signalled whenever an updatable
\* device is added, removed or changed, and never for a notification whose
\* device lacks the SUPPORTED flag
C23_SignalsForUpdatable ==
    [][DeviceNotified =>
         /\ "UPDATABLE" \in did' => "updates_changed" \in did'
         /\ "SUPPORTED" \notin did' => "updates_changed" \notin did']_vars

\* C23 (amended): updates-changed is signalled for a device notification
\* exactly when the device carries the SUPPORTED flag, whether or not it is
\* updatable
C23_SignalsForSupported ==
    [][DeviceNotified =>
         ("updates_changed" \in did' <=> "SUPPORTED" \in did')]_vars

\* a notification about an updatable device without SUPPORTED went by
\* without a signal, after one about a supported device was signalled
C23_Witness ==
    /\ "device_changed" \in did
    /\ "updates_changed" \notin did
    /\ "UPDATABLE" \in did
    /\ "SUPPORTED" \notin did


\* thread t returns from gs_plugin_fwupd_install in this step: the call is
\* gs_plugin_app_install or gs_plugin_update_app for an app of the plugin
\* that is no repository and, for an update, is not locked
InstallReturns(t) ==
    /\ job[t].pc # "done"
    /\ job'[t].pc = "done"
    /\ job'[t].op \in {"app_install", "update_app"}
    /\ LET app == fw_apps[job'[t].app] IN
       /\ fwupd_manages(app)
       /\ job'[t].op = "app_install" => app.kind # "REPOSITORY"
       /\ job'[t].op = "update_app" => ~app.is_locked

\* C24: when gs_plugin_fwupd_install returns the app is not INSTALLING: it
\* is INSTALLED after a success and in the state it had before the call
\* after any failure
C24_InstallLeavesNoInstalling ==
    [][\A t \in Threads :
         InstallReturns(t) =>
            LET state == fw_apps'[job'[t].app].state IN
            /\ state # "INSTALLING"
            /\ job'[t].ret => state = "INSTALLED"
            /\ ~job'[t].ret => state = job'[t].state0]_vars


\* thread t has returned success from gs_plugin_fwupd_install
InstallSucceeded(t) ==
    /\ job[t].pc = "done"
    /\ job[t].ret
    /\ job[t].op \in {"app_install", "update_app"}
    /\ LET app == fw_apps[job[t].app] IN
       /\ fwupd_manages(app)
       /\ job[t].op = "app_install" => app.kind # "REPOSITORY"
       /\ job[t].op = "update_app" => ~app.is_locked

\* the install call of thread t for the app fw_apps[k] is in progress
InstallInProgress(t, k) == job[t].pc = "fw_install" /\ job[t].app = k

\* C25: however the status notifications of fwupd interleave with an
\* install, the app is INSTALLED once the install has returned success and
\* the status of the client is back to IDLE, and a notification makes an app
\* INSTALLING only while the install call for that app is in progress
C25_NotificationsKeepInstalled ==
    [][/\ \A t \in Threads :
             (InstallSucceeded(t) /\ fw_client.status = "IDLE"
                 /\ fw_client.signals = <<>>)'
             => fw_apps'[job'[t].app].state = "INSTALLED"
       /\ \A k \in 1..Len(fw_apps) :
             (/\ job' = job
              /\ fw_apps[k].state # "INSTALLING"
              /\ fw_apps'[k].state = "INSTALLING")
             => \E t \in Threads : InstallInProgress(t, k)]_vars


\* the four entry points of the fwupd plugin that act on one app
AppOps == {"app_install", "app_remove", "download_app", "update_app"}

\* C30: gs_plugin_app_install, gs_plugin_app_remove, gs_plugin_download_app
\* and gs_plugin_update_app return success, call fwupd for nothing and leave
\* the app as it is when the management plugin of the app is not fwupd
C30_ForeignAppUntouched ==
    [][\A t \in Threads :
         (/\ job[t].pc = "idle"
          /\ job'[t].op \in AppOps
          /\ fw_apps[job'[t].app].management_plugin # "fwupd")
         => /\ job'[t].pc = "done"
            /\ job'[t].ret
            /\ job'[t].err = NoError
            /\ did' = {}
            /\ fw_apps' = fw_apps
            /\ fw_client' = fw_client]_vars

\* an update was asked for an app with a local file that the fwupd plugin
\* does not manage
C30_Witness ==
    /\ job[Worker].op = "update_app"
    /\ job[Worker].pc = "done"
    /\ fw_apps[job[Worker].app].management_plugin \in {NoStr, "packagekit"}
    /\ fw_apps[job[Worker].app].local_file


\* C26: a reload asked for while a GET_INSTALLED job is in flight is not
\* lost: once the job has completed the page is still marked invalid, so
\* that the next switch_to starts a fresh load
C26_ReloadNotLost ==
    (page.stale /\ page.jobs = 0) => ~page.cache_valid

\* C27: at most one GET_INSTALLED job is in flight and the waiting flag is
\* set exactly while one is; a load asked for while waiting submits no job
\* and leaves the list alone; switch_to submits a job only when the shell is
\* in installed mode and the page is invalid
C27_OneJobInFlight ==
    [][/\ page'.jobs <= 1
       /\ page'.waiting <=> page'.jobs = 1
       /\ (page.waiting /\ page'.handler \in {"switch_to", "reload"})
             => page'.jobs = page.jobs /\ page'.rows = page.rows
       /\ (page'.handler = "switch_to" /\ page'.jobs > page.jobs)
             => page'.mode = "INSTALLED" /\ ~page.cache_valid]_vars

\* a reload came while the job was in flight and the page had a row
C27_Witness ==
    /\ page.handler = "reload"
    /\ page.waiting /\ page.jobs = 1 /\ page.stale
    /\ page.rows # <<>>

\* C28: whatever the order of loads, job completions and
\* pending-apps-changed notifications, no app is shown by more than one row
C28_OneRowPerApp ==
    \A i, k \in 1..Len(page.rows) :
       page.rows[i].app = page.rows[k].app => i = k

\* the pending apps the counter is about
PendingCounted(list) ==
    Len(SelectSeq(list, LAMBDA app : gs_app_get_kind(app) # "OPERATING_SYSTEM"))

\* C29: after each pending-apps-changed notification the counter shows the
\* number of pending apps whose kind is not operating-system and is hidden
\* exactly when that number is zero; a pending OS upgrade gets no row and
\* is not counted
C29_CounterShowsPending ==
    [][pending' # pending =>
          /\ page'.counter.visible <=> PendingCounted(pending') # 0
          /\ page'.counter.visible => page'.counter.label = PendingCounted(pending')
          /\ \A k \in 1..Len(page'.rows) :
                gs_app_get_kind(page'.rows[k].app) # "OPERATING_SYSTEM"]_vars

\* an OS upgrade and an app are pending: the counter shows 1
C29_Witness ==
    /\ page.handler = "pending_apps_changed"
    /\ \E i \in 1..Len(pending) : gs_app_get_kind(pending[i]) = "OPERATING_SYSTEM"
    /\ page.counter = [label |-> 1, visible |-> TRUE]
    /\ \E k \in 1..Len(page.rows) : page.rows[k].from = "pending"


\* thread t ends gs_plugin_fwupd_new_app for the device dev of
\* gs_plugin_add_updates in this step
NewAppEnds(t, dev) ==
    /\ job[t].op = "add_updates"
    /\ job[t].pc = "fw_create"
    /\ job'[t] # job[t]
    /\ dev = job[t].devices[job[t].i]

\* the app of the device is in the list after the step
NewAppListed(t, dev) ==
    /\ job'[t].err2 = NoError
    /\ \E n \in 1..Len(job'[t].out) :
          job'[t].out[n] = plugin_cache'[as_utils_build_data_id(dev.appstream_id)]

\* the checks of gs_plugin_fwupd_new_app that come before the checksums
\* pass for the app of the device
EarlierChecksPass(app) ==
    /\ app.state = "UPDATABLE_LIVE"
    /\ app.id # NoStr /\ app.version # NoStr /\ app.update_version # NoStr

\* the app of the device after the step
AppOf(dev) == fw_apps'[plugin_cache'[as_utils_build_data_id(dev.appstream_id)]]

\* what every app that gs_plugin_add_updates adds for a device that is not
\* locked has
AddedAppComplete(t, dev) ==
    NewAppListed(t, dev) =>
       /\ EarlierChecksPass(AppOf(dev))
       /\ dev.checksums # {}
       /\ dev.uri # NoStr

\* C31 (as stated): an app added for a device that is not locked is
\* UPDATABLE_LIVE, has id, version and update version, and its release has
\* a checksum and a download URI; a release without checksums is rejected
\* with NO_SECURITY and is not listed
C31_NoChecksumsIsNoSecurity ==
    [][\A t \in Threads : \A dev \in {job[t].devices[i] : i \in 1..Len(job[t].devices)} :
         NewAppEnds(t, dev) =>
            /\ AddedAppComplete(t, dev)
            /\ dev.checksums = {} =>
                  job'[t].err2 = "NO_SECURITY" /\ job'[t].out = job[t].out]_vars

\* C31 (amended): the same, but a release without checksums is rejected
\* with NO_SECURITY only when the app passes the checks that come first
\* (state, id, version, update version), and with NOT_SUPPORTED otherwise
C31_NoChecksumsRejected ==
    [][\A t \in Threads : \A dev \in {job[t].devices[i] : i \in 1..Len(job[t].devices)} :
         NewAppEnds(t, dev) =>
            /\ AddedAppComplete(t, dev)
            /\ dev.checksums = {} =>
                  /\ job'[t].out = job[t].out
                  /\ job'[t].err2 = IF EarlierChecksPass(AppOf(dev))
                                    THEN "NO_SECURITY" ELSE "NOT_SUPPORTED"]_vars

\* an update was listed, and a release without checksums was rejected with
\* NO_SECURITY in the same call
C31_Witness ==
    /\ job[Worker].op = "add_updates"
    /\ job[Worker].pc = "done"
    /\ job[Worker].err2 = "NO_SECURITY"
    /\ \E k \in 1..Len(fw_apps) : fw_apps[k].local_file


\* the file the cache had before the step is one whose SHA1 is not the SHA1
\* checksum of the release of the device
CacheDiffers(t, dev) ==
    /\ job'[t].cache0 \notin {NoStr, "unreadable", "nodir"}
    /\ job'[t].cache0 # fwupd_checksum_get_by_kind(dev.checksums, "SHA1")

\* an app is returned only with no file or the right file in the cache, and
\* with download size 0 when the file is there
ReturnedAppCacheOk(t, dev) ==
    job'[t].err2 = NoError =>
       /\ job'[t].cache \in {NoStr, fwupd_checksum_get_by_kind(dev.checksums, "SHA1")}
       /\ job'[t].cache # NoStr => AppOf(dev).size_download = 0

\* the file was deleted and no app returned
CacheFileDeleted(t) ==
    /\ job'[t].cache = NoStr
    /\ "cache_unlink" \in did'
    /\ job'[t].err2 # NoError
    /\ job'[t].out = job[t].out

\* C32 (as stated): when gs_plugin_fwupd_new_app returns an app the cache
\* file of the release does not exist or has the SHA1 of the release; a
\* cached file with another checksum is deleted and no app is returned; an
\* app whose file is cached has download size 0
C32_WrongCacheFileDeleted ==
    [][\A t \in Threads : \A dev \in {job[t].devices[i] : i \in 1..Len(job[t].devices)} :
         NewAppEnds(t, dev) =>
            /\ ReturnedAppCacheOk(t, dev)
            /\ CacheDiffers(t, dev) => CacheFileDeleted(t)]_vars

\* C32 (amended): the same, but a cached file with another checksum is
\* deleted only when the app has passed the checks that come before the
\* look into the cache: state, id, version, update version, checksums and
\* location; a device that fails one of them gets no app and its cached
\* file stays
C32_WrongCacheFileDeletedAfterChecks ==
    [][\A t \in Threads : \A dev \in {job[t].devices[i] : i \in 1..Len(job[t].devices)} :
         NewAppEnds(t, dev) =>
            /\ ReturnedAppCacheOk(t, dev)
            /\ CacheDiffers(t, dev) =>
                  IF /\ EarlierChecksPass(AppOf(dev))
                     /\ dev.checksums # {} /\ dev.uri # NoStr
                  THEN CacheFileDeleted(t)
                  ELSE /\ job'[t].cache = job'[t].cache0
                       /\ job'[t].err2 # NoError
                       /\ job'[t].out = job[t].out]_vars

\* a cached file with another checksum has just been deleted, after an app
\* with its file in the cache was returned
C32_Witness ==
    /\ job[Worker].op = "add_updates"
    /\ job[Worker].cache0 = "sha1:other"
    /\ job[Worker].cache = NoStr
    /\ "cache_unlink" \in did
    /\ \E k \in 1..Len(fw_apps) : fw_apps[k].size_download = 0


\* the list old is the beginning of the list new
IsPrefix(old, new) ==
    /\ Len(old) <= Len(new)
    /\ \A n \in 1..Len(old) : new[n] = old[n]

\* C33: in gs_plugin_add_updates a device whose upgrade query fails or
\* whose app cannot be built is skipped: the loop goes on to the next device
\* with the list as it was and the call returns success, every other
\* device has its app in the list, and the call fails only when the devices
\* cannot be enumerated for another reason than NOTHING_TO_DO,
\* NOT_SUPPORTED or NOT_FOUND
C33_DeviceFailureSkipped ==
    [][\A t \in Threads :
         (job'[t].op = "add_updates" /\ job'[t] # job[t]) =>
            IF job[t].pc = "idle"
            THEN job'[t].ret <=> job'[t].err2 \in {NoError, "NOTHING_TO_DO",
                                                  "NOT_SUPPORTED", "NOT_FOUND"}
            ELSE LET dev == job[t].devices[job[t].i] IN
                 /\ IsPrefix(job[t].out, job'[t].out)
                 /\ job'[t].devices = job[t].devices
                 /\ IF job'[t].pc = "done"
                    THEN job'[t].ret /\ job[t].i = Len(job[t].devices)
                    ELSE \/ job'[t].pc = "fw_create" /\ job'[t].i = job[t].i
                         \/ job'[t].pc = "fw_lookup" /\ job'[t].i = job[t].i + 1
                 /\ job'[t].pc # "fw_create" =>
                       IF "LOCKED" \in dev.flags
                       THEN /\ Len(job'[t].out) = Len(job[t].out) + 1
                            /\ fw_apps'[job'[t].out[Len(job'[t].out)]].device_id
                                  = JoinWith(dev.id, "/")
                       ELSE IF /\ "SUPPORTED" \in dev.flags
                               /\ dev.upgrades = "ok"
                               /\ dev.appstream_id # NoStr
                               /\ job'[t].err2 = NoError
                       THEN NewAppListed(t, dev)
                       ELSE job'[t].out = job[t].out]_vars

\* the call has returned success with the app of the second device in its
\* list after the first device was skipped
C33_Witness ==
    /\ job[Worker].op = "add_updates"
    /\ job[Worker].pc = "done"
    /\ job[Worker].ret
    /\ Len(job[Worker].devices) = 2
    /\ "UPDATABLE" \notin job[Worker].devices[1].flags
    /\ "LOCKED" \notin job[Worker].devices[1].flags
    /\ Len(job[Worker].out) = 1

\* the codes of GS_PLUGIN_ERROR
GsPluginErrorCodes ==
    {"FAILED", "NOT_SUPPORTED", "CANCELLED", "NO_NETWORK", "NO_SECURITY", "NO_SPACE",
     "AUTH_REQUIRED", "AUTH_INVALID", "PIN_REQUIRED", "ACCOUNT_SUSPENDED",
     "ACCOUNT_DEACTIVATED", "PLUGIN_DEPSOLVE_FAILED", "DOWNLOAD_FAILED",
     "WRITE_FAILED", "INVALID_FORMAT", "DELETE_FAILED", "RESTART_REQUIRED",
     "AC_POWER_REQUIRED", "TIMED_OUT", "BATTERY_LEVEL_TOO_LOW"}

\* the public operations of the fwupd plugin
FwupdOps == {"add_sources", "add_updates", "add_updates_historical", "file_to_app",
             "app_install", "app_remove", "download_app", "update_app"}

\* C34: every error a public operation of the fwupd plugin returns is in
\* the error domain of the plugins, with one of its codes
C34_ErrorsInPluginDomain ==
    \A t \in Threads :
       (job[t].op \in FwupdOps /\ job[t].pc = "done" /\ ~job[t].ret) =>
          job[t].err \in GsPluginErrorCodes

\* the app fw_apps[k] is a repository made by gs_plugin_add_sources
IsSource(k) ==
    /\ fw_apps[k].kind = "REPOSITORY"
    /\ fw_apps[k].management_plugin = "fwupd"
    /\ fw_apps[k].remote_id # NoStr

\* C35: gs_plugin_fwupd_modify_source puts a repository in INSTALLING
\* (enabling) or REMOVING (disabling) while the remote is modified and in
\* INSTALLED or AVAILABLE when that succeeded; when it failed the app is
\* back in the state it had before the call; an app of the plugin without
\* "fwupd::remote-id" makes the call fail with FAILED, with no change of
\* state and no call of fwupd
C35_ModifySourceStates ==
    [][\A t \in Threads :
         (job'[t] # job[t] /\ job'[t].op \in {"app_install", "app_remove"}) =>
            LET k == job'[t].app
                on == job'[t].op = "app_install"
            IN
            IF job[t].pc = "idle" /\ IsSource(k)
            THEN /\ job'[t].pc = "fw_modify"
                 /\ "modify_remote" \in did'
                 /\ fw_apps'[k].state = IF on THEN "INSTALLING" ELSE "REMOVING"
            ELSE IF job[t].pc = "fw_modify"
            THEN /\ job'[t].pc = "done"
                 /\ fw_apps[k].state = IF on THEN "INSTALLING" ELSE "REMOVING"
                 /\ fw_apps'[k].state =
                       IF ~job'[t].ret THEN job[t].state0
                       ELSE IF on THEN "INSTALLED" ELSE "AVAILABLE"
            ELSE (/\ job[t].pc = "idle"
                  /\ fwupd_manages(fw_apps[k])
                  /\ fw_apps[k].remote_id = NoStr
                  /\ ~on \/ fw_apps[k].kind = "REPOSITORY") =>
                    /\ job'[t].pc = "done" /\ ~job'[t].ret
                    /\ job'[t].err = "FAILED"
                    /\ fw_apps' = fw_apps
                    /\ "modify_remote" \notin did']_vars

\* disabling an enabled remote has failed and the repository is INSTALLED
\* as before
C35_Witness ==
    /\ job[Worker].op = "app_remove"
    /\ job[Worker].pc = "done"
    /\ ~job[Worker].ret
    /\ job[Worker].err2 # NoError
    /\ IsSource(job[Worker].app)
    /\ job[Worker].state0 = "INSTALLED"
    /\ fw_apps[job[Worker].app].state = "INSTALLED"

\* the thread is about to lock the mutex m
Locking(t, m) ==
    /\ job[t].pc = "locking"
    /\ job[t].prog[job[t].i] = Lock(m)

\* the thread has sent a request and has no answer yet
InFlight(t) ==
    /\ job[t].pc = "locking"
    /\ job[t].i > 1
    /\ job[t].prog[job[t].i - 1] = <<"send">>

\* some threads wait for mutexes that only threads among them hold
Deadlocked ==
    \E W \in SUBSET Threads \ {{}} :
       \A t \in W : \E m \in {"review_server_lock", "ratings_mutex"} :
          Locking(t, m) /\ \E u \in W : m \in job[u].held

\* C36: no operation of the ODRS plugin holds the lock on the review
\* server and the ratings mutex together, locks a mutex it holds, holds a
\* mutex while a request is in flight or returns with one, and the
\* operations of several threads never wait for each other in a circle
C36_NoDeadlock ==
    /\ \A t \in Threads :
          /\ Cardinality(job[t].held) <= 1
          /\ \A m \in job[t].held : ~Locking(t, m)
          /\ InFlight(t) => job[t].held = {}
          /\ job[t].pc \in {"idle", "done"} => job[t].held = {}
    /\ ~Deadlocked

\* a refine waits for the ratings mutex while a refresh that has had its
\* answer from the network swaps the table
C36_Witness ==
    \E t, u \in Threads :
       /\ job[t].op = "refine" /\ Locking(t, "ratings_mutex")
       /\ job[u].op = "refresh" /\ "ratings_mutex" \in job[u].held
       /\ \E n \in 1..Len(job[u].prog) : job[u].prog[n] = <<"recv">>

\* the rows are in the order of their app ids
RatingsSorted(rows) ==
    \A m, n \in 1..Len(rows) : m < n => IdRank(rows[m].app_id) <= IdRank(rows[n].app_id)

\* the rows are the members of the file that hold an object with the six
\* star counts, each of them once
RatingsComplete(rows, fn) ==
    LET valid == {m \in 1..Len(fn.data.members) :
                     /\ fn.data.members[m].holds_object
                     /\ Len(fn.data.members[m].stars) = 6}
    IN  /\ fn.exists /\ fn.data.kind = "object"
        /\ Len(rows) = Cardinality(valid)
        /\ \A m \in valid : \E n \in 1..Len(rows) :
              /\ rows[n].app_id = fn.data.members[m].app_id
              /\ rows[n].n_star_ratings = fn.data.members[m].stars

\* C37: the ratings table, once there is one, is sorted by app id; a step
\* changes it only by loading the ratings file, to all the rows of that
\* file at once, and a load of a file that cannot be read or parsed leaves
\* the table as it was
C37_RatingsTableWhole ==
    /\ [](ratings.loaded => RatingsSorted(ratings.rows))
    /\ [][/\ ratings' # ratings =>
               /\ "ratings_load" \in did'
               /\ ratings'.loaded
               /\ RatingsComplete(ratings'.rows, ratings_file')
          /\ ("ratings_load" \in did' /\ ~(ratings_file'.exists
                                           /\ ratings_file'.data.kind = "object")) =>
               ratings' = ratings]_vars

\* a refresh has failed on a file that is no JSON object and the table
\* of the load before is still there
C37_Witness ==
    /\ job[Worker].op = "refresh"
    /\ job[Worker].pc = "done"
    /\ ~job[Worker].ret
    /\ ratings_file.data.kind = "array"
    /\ ratings.loaded
    /\ Len(ratings.rows) = 2

\* C38: while priv->review_server is NULL or empty, gs_plugin_review_submit,
\* every vote and gs_plugin_add_unvoted_reviews return at once with
\* NOT_SUPPORTED: no request is sent, no cache file is deleted, and the
\* review and the list are as they were handed in
C38_NoServerNoReviewOps ==
    [][\A t \in Threads :
         (/\ review_server \in {NoStr, ""}
          /\ job[t].pc = "idle"
          /\ job'[t].op \in {"submit", "vote", "unvoted"}) =>
            /\ job'[t].pc = "done"
            /\ ~job'[t].ret
            /\ job'[t].err = "NOT_SUPPORTED"
            /\ did' = {}
            /\ UNCHANGED <<review_files, apps>>
            /\ job'[t].review.flags = {}
            /\ job'[t].op = "submit" => job'[t].review = NoReview
            /\ job'[t].added = <<>>]_vars

\* a vote on a review whose app has a cache file has been refused while
\* the review server is the empty string, and the file is still there
C38_Witness ==
    /\ review_server = ""
    /\ job[Worker].op = "vote"
    /\ job[Worker].pc = "done"
    /\ job[Worker].err = "NOT_SUPPORTED"
    /\ job[Worker].review.app_id # NoStr
    /\ review_files[job[Worker].review.app_id].exists

\* the sum of the j-th star count over the rows whose app id is in ids
RECURSIVE SumStars(_, _, _)
SumStars(rows, ids, j) ==
    IF rows = <<>> THEN 0
    ELSE (IF Head(rows).app_id \in ids THEN Head(rows).n_star_ratings[j] ELSE 0)
         + SumStars(Tail(rows), ids, j)

\* the ids of an app a review may be filed under, each of them once
ReviewableIdSet(a) ==
    {gs_app_get_reviewable_ids(a)[n] : n \in 1..Len(gs_app_get_reviewable_ids(a))}

\* C39: when gs_plugin_odrs_refine_ratings sets the review ratings of an
\* app, each of the six star counts is the sum of that count over the rows
\* of the table of its own id and of the ids it provides, each id counted
\* once; when the table has none of them the app is left as it is, and the
\* rating is only ever set to a positive score
C39_StarCountsSummedOnce ==
    [][\A t \in Threads :
         (job[t].op = "refine" /\ job[t].pc = "ratings" /\ job'[t] # job[t]) =>
            LET a == CurApp(job[t])
                ids == ReviewableIdSet(a)
                found == \E n \in 1..Len(ratings'.rows) : ratings'.rows[n].app_id \in ids
            IN
            /\ apps'[a].review_ratings # apps[a].review_ratings =>
                  apps'[a].review_ratings =
                     [j \in 1..6 |-> SumStars(ratings'.rows, ids, j)]
            /\ ~found => apps' = apps
            /\ apps'[a].rating # apps[a].rating => apps'[a].rating > 0]_vars

=============================================================================
